---------------------------- MODULE Spec2Model ----------------------------
(***************************************************************************)
(* A model of the bookforge EPUB library (src/src/epub).                   *)
(*                                                                         *)
(* The library is a set of independent components; each one is modelled    *)
(* as its own state machine over its own variables, with its own           *)
(* specification:                                                          *)
(*   SpecNcx        the navigation parser, Ncx::parse_xml                  *)
(*                  (ncx/parser.rs, ncx/navigation.rs)                     *)
(* While one component runs, the variables of the others stay at their     *)
(* idle values.                                                            *)
(*                                                                         *)
(* Conventions: Option<T> is a sequence of length 0 (None) or 1 (Some);    *)
(* a Rust String whose characters matter is a sequence of one-character    *)
(* strings.                                                                *)
(***************************************************************************)
EXTENDS Integers, Sequences, FiniteSets, TLC

VARIABLES
    \* ---- Ncx::parse_xml (ncx/parser.rs:39-240)
    ncxPc,              \* "parsing" while in the event loop, "done" after Ok(Ncx)
    ncxDoc,             \* the XML events the reader has delivered so far
    current_section,    \* parser.rs:52
    nav_point_stack,    \* parser.rs:56
    current_nav_point,  \* parser.rs:57
    nav_map,            \* parser.rs:48; after Eof the sorted map of the result
    toc_roots,          \* toc_tree.rs: TocTree.roots built from the returned Ncx
    \* ---- content-path resolution (ncx/toc_tree.rs:219-294, 1162-1201)
    pathPc,             \* "ready", then "node" / "tree": which method resolved
    epubPaths,          \* the EpubPaths of the facade (reader.rs:30-34)
    nodeSrc,            \* TocTreeNode.src of the node resolved
    fullPath,           \* full_path, the archive path that is read
    \* ---- Container::parse_xml (container.rs:26-89)
    containerPc,        \* "parsing" in the event loop, then "ok" or "err"
    containerDoc,       \* the XML events the reader has delivered so far
    in_rootfiles,       \* container.rs:33
    rootfiles,          \* container.rs:31; the rootfiles of the Container returned
    \* ---- Metadata (opf/metadata.rs:74-81)
    metaPc,             \* "open" while the store is being filled
    raw_metadata,       \* metadata.rs:76: tag name -> list of MetadataValue
    refines_metadata,   \* metadata.rs:78: refined id -> list of MetaValue
    metaAdds,           \* number of add_* calls made so far
    \* ---- Epub facade (reader.rs:13-26) shared by the threads
    archive,            \* the entries of the ZipArchive: name -> kind of content
    archive_lock,       \* reader.rs:15: the thread holding the Mutex, or NoThread
    cells,              \* reader.rs:17-25: the five OnceCell slots
    stack,              \* per thread: the frames of the calls in progress
    ret,                \* per thread: the result of the call that returned last
    calls,              \* per thread: accessor calls started so far
    stored,             \* per slot: every value ever stored in it
    observed,           \* per slot: every value a caller got back from it
    opf_reads,          \* successful reads of the package document
    opf_parses,         \* successful parses of the package document
    next_obj,           \* identities handed to the objects constructed so far
    ncx_reads,          \* reads of the navigation document attempted
    returned,           \* what ncx() and toc_tree() returned to their callers
    ncx_parses,         \* parses of the navigation document attempted
    trees,              \* the Ncx values from which toc_tree() built a tree it returned
    \* ---- One package document and the archive around it (opf/parser.rs:16-22)
    pkgPc,              \* where the parse or the lookup stands
    opfReadable,        \* read_file(opf_path) and Opf::parse_xml both succeed
    opfDoc,             \* the events of the package document read so far
    opfLocals,          \* locals of parse_xml_with_config in the metadata section
    opfSection,         \* parser.rs:61: current_section
    manifest,           \* parser.rs:19: id -> ManifestItem
    spine,              \* parser.rs:20: the SpineItems in document order
    spine_toc,          \* parser.rs:21: the toc attribute of <spine>
    cover_meta,         \* metadata.rs:234: Metadata::cover()
    pkgDir,             \* reader.rs:32: EpubPaths.opf_directory
    pkgFiles,           \* the names of the entries of the archive
    pkgResult,          \* what the lookup returned
    openPc,             \* where the call of Epub::from_path is
    openInput,          \* the file at the path given to from_path
    openResult,         \* what from_path returned
    \* ---- Ncx::parse_xml on the root element and the page list (ncx/parser.rs:39-240)
    pagePc,             \* where the parse stands
    pageDoc,            \* the events of the navigation document read so far
    ncxRoot,            \* parser.rs:44-45: version and xml_lang
    pageLocals,         \* parser.rs:51-66: the locals of the page-list parse
    page_list,          \* parser.rs:49: the page list of the result
    page_toc_roots,     \* toc_tree.rs: TocTree.roots built from the Ncx returned
    page_lookup         \* the last path-addressed call on the tree and what it returned

ncxVars == <<ncxPc, ncxDoc, current_section, nav_point_stack, current_nav_point, nav_map,
             toc_roots>>

pathVars == <<pathPc, epubPaths, nodeSrc, fullPath>>

containerVars == <<containerPc, containerDoc, in_rootfiles, rootfiles>>

metaVars == <<metaPc, raw_metadata, refines_metadata, metaAdds>>

facadeVars == <<archive, archive_lock, cells, stack, ret, calls, stored, observed,
                opf_reads, opf_parses, next_obj, ncx_reads, returned, ncx_parses, trees>>

packageVars == <<pkgPc, opfReadable, opfDoc, opfLocals, opfSection, manifest, spine, spine_toc, cover_meta,
                 pkgDir, pkgFiles, pkgResult>>

openVars == <<openPc, openInput, openResult>>

pageVars == <<pagePc, pageDoc, ncxRoot, pageLocals, page_list, page_toc_roots,
              page_lookup>>

vars == <<ncxVars, pathVars, containerVars, metaVars, facadeVars, packageVars, openVars,
          pageVars>>

\* What an action of one component leaves alone: the other components.
notNcx ==
    <<pathVars, containerVars, metaVars, facadeVars, packageVars, openVars, pageVars>>
notPath ==
    <<ncxVars, containerVars, metaVars, facadeVars, packageVars, openVars, pageVars>>
notContainer ==
    <<ncxVars, pathVars, metaVars, facadeVars, packageVars, openVars, pageVars>>
notMeta ==
    <<ncxVars, pathVars, containerVars, facadeVars, packageVars, openVars, pageVars>>
notFacade ==
    <<ncxVars, pathVars, containerVars, metaVars, packageVars, openVars, pageVars>>
notFacadeNorOpen == <<ncxVars, pathVars, containerVars, metaVars, packageVars, pageVars>>
notPageList == <<ncxVars, pathVars, containerVars, metaVars, facadeVars, packageVars, openVars>>
notPackage ==
    <<ncxVars, pathVars, containerVars, metaVars, facadeVars, openVars, pageVars>>

None == <<>>
Some(x) == <<x>>

(***************************************************************************)
(* The idle values of each component's variables.                          *)
(***************************************************************************)
\* No path-addressed call has been made.
NoLookup == [fn |-> "none", path |-> <<>>, result |-> <<>>]

\* NcxMetadata::new (ncx/navigation.rs:24-32)
NewNcxMetadata ==
    [uid |-> <<>>, depth |-> <<>>, total_page_count |-> <<>>, max_page_number |-> <<>>,
     other_metadata |-> <<>>]

\* PageList::new (ncx/navigation.rs:268-275)
NewPageList == [nav_label |-> None, page_targets |-> <<>>]

IdlePageList ==
    /\ pagePc = "idle"
    /\ pageDoc = <<>>
    /\ ncxRoot = [version |-> <<>>, xml_lang |-> None]
    /\ pageLocals = [current_section |-> <<>>, text_content |-> <<>>,
                     metadata |-> NewNcxMetadata,
                     nav_point_stack |-> <<>>, current_nav_point |-> None, nav_map |-> <<>>,
                     current_nav_label |-> None, current_nav_content |-> None,
                     current_page_list |-> NewPageList, current_page_target |-> None,
                     open |-> <<>>]
    /\ page_list = None
    /\ page_toc_roots = <<>>
    /\ page_lookup = NoLookup

IdleNavMap ==
    /\ ncxPc = "idle"
    /\ ncxDoc = <<>>
    /\ current_section = ""
    /\ nav_point_stack = <<>>
    /\ current_nav_point = None
    /\ nav_map = <<>>
    /\ toc_roots = <<>>

IdleNcx == IdleNavMap /\ IdlePageList

IdlePath ==
    /\ pathPc = "idle"
    /\ epubPaths = [opf_path |-> <<"a">>, opf_directory |-> <<>>, ncx_path |-> <<>>]
    /\ nodeSrc = <<>>
    /\ fullPath = <<>>

IdleContainer ==
    /\ containerPc = "idle"
    /\ containerDoc = <<>>
    /\ in_rootfiles = FALSE
    /\ rootfiles = <<>>

\* A HashMap with no entry is the function with the empty domain.
EmptyMap == <<>>

IdleMeta ==
    /\ metaPc = "idle"
    /\ raw_metadata = EmptyMap
    /\ refines_metadata = EmptyMap
    /\ metaAdds = 0

\* No facade has been opened: no archive, no thread, no slot.
IdleFacade ==
    /\ archive = EmptyMap
    /\ archive_lock = "none"
    /\ cells = EmptyMap
    /\ stack = EmptyMap
    /\ ret = EmptyMap
    /\ calls = EmptyMap
    /\ stored = EmptyMap
    /\ observed = EmptyMap
    /\ opf_reads = 0
    /\ opf_parses = 0
    /\ next_obj = 0
    /\ ncx_reads = 0
    /\ returned = EmptyMap
    /\ ncx_parses = 0
    /\ trees = {}

\* No archive is being opened.
IdleOpen ==
    /\ openPc = "idle"
    /\ openInput = [zip |-> FALSE, mimetype |-> <<>>]
    /\ openResult = "none"

\* The locals of the package parser before any event of the metadata section.
NoLocals ==
    [text_content |-> <<>>, current_attributes |-> EmptyMap, current_meta_property |-> <<>>,
     open |-> <<>>]

\* No package document is being looked at.
IdlePackage ==
    /\ pkgPc = "idle"
    /\ opfReadable = FALSE
    /\ opfDoc = <<>>
    /\ opfLocals = NoLocals
    /\ opfSection = <<>>
    /\ manifest = EmptyMap
    /\ spine = <<>>
    /\ spine_toc = <<>>
    /\ cover_meta = <<>>
    /\ pkgDir = <<>>
    /\ pkgFiles = {}
    /\ pkgResult = [value |-> <<>>, probed |-> <<>>]

(***************************************************************************)
(* Bounds of the navigation documents explored.                            *)
(***************************************************************************)
MaxNavPoints == 4
MaxPlayOrder == 1

\* The value of a playOrder attribute: a number, or Unparseable for a
\* missing or non-numeric attribute.
Unparseable == 0 - 1
PlayOrderAttrs == {Unparseable} \cup (0..MaxPlayOrder)

(***************************************************************************)
(* NavPoint and NavMap (ncx/navigation.rs)                                 *)
(***************************************************************************)
\* The NavPoint built at a navPoint start tag: empty label, content, children.
NewNavPoint(id, play_order) ==
    [id |-> id, play_order |-> play_order, nav_label |-> [text |-> <<>>],
     content |-> [src |-> <<>>], children |-> <<>>]

\* A wrong attachment: the child is put first, not last.
add_child_front(parent, child) ==
    [parent EXCEPT !.children = <<child>> \o @]

add_child(parent, child) ==
    [parent EXCEPT !.children = Append(@, child)]

add_nav_point(map, nav_point) == Append(map, nav_point)

\* Vec::sort_by with the comparator a.play_order.cmp(&b.play_order): a stable
\* sort, here as insertion of each element after the elements not greater.
RECURSIVE InsertByPlayOrder(_, _)
InsertByPlayOrder(sorted, x) ==
    IF sorted = <<>> THEN <<x>>
    ELSE IF Head(sorted).play_order <= x.play_order
         THEN <<Head(sorted)>> \o InsertByPlayOrder(Tail(sorted), x)
         ELSE <<x>> \o sorted

RECURSIVE SortByPlayOrderFrom(_, _)
SortByPlayOrderFrom(sorted, rest) ==
    IF rest = <<>> THEN sorted
    ELSE SortByPlayOrderFrom(InsertByPlayOrder(sorted, Head(rest)), Tail(rest))

stable_sort_by_play_order(points) == SortByPlayOrderFrom(<<>>, points)

\* A sort that forgets to descend into the children.
sort_children_shallow(point) ==
    [point EXCEPT !.children = stable_sort_by_play_order(@)]

RECURSIVE sort_children_by_play_order(_)
sort_children_by_play_order(point) ==
    LET sorted == stable_sort_by_play_order(point.children)
    IN  [point EXCEPT !.children =
            [i \in 1..Len(sorted) |-> sort_children_by_play_order(sorted[i])]]

sort_by_play_order(map) ==
    LET sorted == stable_sort_by_play_order(map)
    IN  [i \in 1..Len(sorted) |-> sort_children_by_play_order(sorted[i])]

(***************************************************************************)
(* Ncx::parse_xml: one action per XML event of the loop at parser.rs:68.   *)
(* The reader is configured with expand_empty_elements, so every element   *)
(* arrives as a Start and an End event.                                    *)
(***************************************************************************)
StartEv(name, attr) == [type |-> "start", name |-> name, playOrder |-> attr]
EndEv(name) == [type |-> "end", name |-> name, playOrder |-> Unparseable]

\* The names of the elements open after the events of doc, outermost first.
RECURSIVE OpenElements(_)
OpenElements(doc) ==
    IF doc = <<>> THEN <<>>
    ELSE LET before == OpenElements(SubSeq(doc, 1, Len(doc) - 1))
             ev == doc[Len(doc)]
         IN  IF ev.type = "start" THEN Append(before, ev.name)
             ELSE SubSeq(before, 1, Len(before) - 1)

NavPointStarts(doc) ==
    Cardinality({i \in 1..Len(doc) : doc[i].type = "start" /\ doc[i].name = "navPoint"})

\* parse_nav_point_attributes (parser.rs:304-326): playOrder defaults to 0.
parse_play_order(attr) == IF attr = Unparseable THEN 0 ELSE attr

InitNcx ==
    /\ IdleOpen
    /\ IdlePackage
    /\ IdleFacade
    /\ IdleMeta
    /\ IdlePath
    /\ IdleContainer
    /\ IdlePageList
    /\ ncxPc = "parsing"
    /\ ncxDoc = <<>>
    /\ current_section = ""
    /\ nav_point_stack = <<>>
    /\ current_nav_point = None
    /\ nav_map = <<>>
    /\ toc_roots = <<>>

\* Event::Start "navMap" (parser.rs:87-89)
StartNavMap ==
    /\ ncxPc = "parsing"
    /\ OpenElements(ncxDoc) = <<>>
    /\ \A i \in 1..Len(ncxDoc) : ncxDoc[i].name # "navMap"
    /\ ncxDoc' = Append(ncxDoc, StartEv("navMap", Unparseable))
    /\ current_section' = "navMap"
    /\ UNCHANGED <<ncxPc, nav_point_stack, current_nav_point, nav_map>>
    /\ UNCHANGED toc_roots
    /\ UNCHANGED notNcx

\* Event::Start "navPoint" (parser.rs:97-113)
StartNavPoint(attr) ==
    /\ ncxPc = "parsing"
    /\ OpenElements(ncxDoc) # <<>>
    /\ NavPointStarts(ncxDoc) < MaxNavPoints
    /\ ncxDoc' = Append(ncxDoc, StartEv("navPoint", attr))
    /\ IF current_section = "navMap"
       THEN /\ nav_point_stack' =
                  IF current_nav_point # None
                  THEN Append(nav_point_stack, current_nav_point[1])
                  ELSE nav_point_stack
            /\ current_nav_point' =
                  Some(NewNavPoint(NavPointStarts(ncxDoc) + 1, parse_play_order(attr)))
       ELSE UNCHANGED <<nav_point_stack, current_nav_point>>
    /\ UNCHANGED <<ncxPc, current_section, nav_map>>
    /\ UNCHANGED toc_roots
    /\ UNCHANGED notNcx

\* Event::End "navPoint" (parser.rs:193-202)
EndNavPoint ==
    /\ ncxPc = "parsing"
    /\ OpenElements(ncxDoc) # <<>>
    /\ OpenElements(ncxDoc)[Len(OpenElements(ncxDoc))] = "navPoint"
    /\ ncxDoc' = Append(ncxDoc, EndEv("navPoint"))
    /\ IF current_section = "navMap" /\ current_nav_point # None
       THEN IF nav_point_stack # <<>>
            THEN LET parent == nav_point_stack[Len(nav_point_stack)]
                 IN  /\ nav_point_stack' = SubSeq(nav_point_stack, 1, Len(nav_point_stack) - 1)
                     /\ current_nav_point' = Some(add_child(parent, current_nav_point[1]))
                     /\ UNCHANGED nav_map
            ELSE /\ nav_map' = add_nav_point(nav_map, current_nav_point[1])
                 /\ current_nav_point' = None
                 /\ UNCHANGED nav_point_stack
       ELSE UNCHANGED <<nav_point_stack, current_nav_point, nav_map>>
    /\ UNCHANGED <<ncxPc, current_section>>
    /\ UNCHANGED toc_roots
    /\ UNCHANGED notNcx

\* Event::End "navMap" (parser.rs:162-164)
EndNavMap ==
    /\ ncxPc = "parsing"
    /\ OpenElements(ncxDoc) = <<"navMap">>
    /\ ncxDoc' = Append(ncxDoc, EndEv("navMap"))
    /\ current_section' = ""
    /\ UNCHANGED <<ncxPc, nav_point_stack, current_nav_point, nav_map>>
    /\ UNCHANGED toc_roots
    /\ UNCHANGED notNcx

\* Event::Eof and the return (parser.rs:222, 228-239)
NcxEof ==
    /\ ncxPc = "parsing"
    /\ OpenElements(ncxDoc) = <<>>
    /\ ncxPc' = "done"
    /\ nav_map' = sort_by_play_order(nav_map)
    /\ UNCHANGED <<ncxDoc, current_section, nav_point_stack, current_nav_point>>
    /\ UNCHANGED toc_roots
    /\ UNCHANGED notNcx

\* A conversion that numbers the roots' level 1.
RECURSIVE convert_from_level_one(_, _)
convert_from_level_one(nav_point, depth) ==
    [play_order |-> nav_point.play_order,
     title |-> nav_point.nav_label.text,
     src |-> nav_point.content.src,
     id |-> nav_point.id,
     depth |-> depth + 1,
     children |-> [i \in 1..Len(nav_point.children) |->
                      convert_from_level_one(nav_point.children[i], depth + 1)]]

\* A conversion that gives the children their parent's depth.
RECURSIVE convert_keeping_depth(_, _)
convert_keeping_depth(nav_point, depth) ==
    [play_order |-> nav_point.play_order,
     title |-> nav_point.nav_label.text,
     src |-> nav_point.content.src,
     id |-> nav_point.id,
     depth |-> depth,
     children |-> [i \in 1..Len(nav_point.children) |->
                      convert_keeping_depth(nav_point.children[i], depth)]]

\* convert_nav_point_to_toc_node (toc_tree.rs:2052-2067)
RECURSIVE convert_nav_point_to_toc_node(_, _)
convert_nav_point_to_toc_node(nav_point, depth) ==
    [play_order |-> nav_point.play_order,
     title |-> nav_point.nav_label.text,
     src |-> nav_point.content.src,
     id |-> nav_point.id,
     depth |-> depth,
     children |-> [i \in 1..Len(nav_point.children) |->
                      convert_nav_point_to_toc_node(nav_point.children[i], depth + 1)]]

\* TocTreeNode::get_max_depth (toc_tree.rs:69-75)
RECURSIVE get_max_depth(_)
get_max_depth(node) ==
    LET m[i \in 0..Len(node.children)] ==
            IF i = 0 THEN node.depth
            ELSE IF get_max_depth(node.children[i]) > m[i - 1]
                 THEN get_max_depth(node.children[i]) ELSE m[i - 1]
    IN  m[Len(node.children)]

\* TocTree::get_statistics, the max_depth field (toc_tree.rs:1016-1033)
statistics_max_depth(tree_roots) ==
    LET m[i \in 0..Len(tree_roots)] ==
            IF i = 0 THEN 0
            ELSE IF get_max_depth(tree_roots[i]) > m[i - 1]
                 THEN get_max_depth(tree_roots[i]) ELSE m[i - 1]
    IN  m[Len(tree_roots)]

\* create_toc_tree_from_ncx (toc_tree.rs:2035-2049), on the Ncx returned.
create_toc_tree_from_ncx ==
    /\ ncxPc = "done"
    /\ ncxPc' = "tree"
    /\ toc_roots' = [i \in 1..Len(nav_map) |-> convert_nav_point_to_toc_node(nav_map[i], 0)]
    /\ UNCHANGED <<ncxDoc, current_section, nav_point_stack, current_nav_point, nav_map>>
    /\ UNCHANGED notNcx

NextNcx ==
    \/ StartNavMap
    \/ \E attr \in PlayOrderAttrs : StartNavPoint(attr)
    \/ EndNavPoint
    \/ EndNavMap
    \/ NcxEof
    \/ create_toc_tree_from_ncx


(***************************************************************************)
(* XML containment of the navPoint elements, read off the document alone.  *)
(* The k-th navPoint start tag of the document carries id k.               *)
(***************************************************************************)
Prefix(doc, n) == SubSeq(doc, 1, n)

\* The ids of the navPoint elements open after the events of doc, outermost first.
RECURSIVE OpenNavPoints(_)
OpenNavPoints(doc) ==
    IF doc = <<>> THEN <<>>
    ELSE LET before == OpenNavPoints(Prefix(doc, Len(doc) - 1))
             ev == doc[Len(doc)]
         IN  IF ev.name # "navPoint" THEN before
             ELSE IF ev.type = "start" THEN Append(before, NavPointStarts(doc))
             ELSE SubSeq(before, 1, Len(before) - 1)

\* <<p, c>>: navPoint c is directly contained in navPoint p (p = 0: in navMap).
XmlEdges(doc) ==
    { <<IF OpenNavPoints(Prefix(doc, i - 1)) = <<>> THEN 0
        ELSE OpenNavPoints(Prefix(doc, i - 1))[Len(OpenNavPoints(Prefix(doc, i - 1)))],
        NavPointStarts(Prefix(doc, i))>> :
      i \in {j \in 1..Len(doc) : doc[j].type = "start" /\ doc[j].name = "navPoint"} }

SeqToSet(s) == {s[i] : i \in 1..Len(s)}

ClosedNavPoints(doc) == (1..NavPointStarts(doc)) \ SeqToSet(OpenNavPoints(doc))

RECURSIVE PointEdges(_)
PointEdges(point) ==
    UNION { {<<point.id, point.children[i].id>>} \cup PointEdges(point.children[i]) :
            i \in 1..Len(point.children) }

ForestEdges(roots) ==
    UNION { {<<0, roots[i].id>>} \cup PointEdges(roots[i]) : i \in 1..Len(roots) }

\* Every sibling list below and including points is in document order.
RECURSIVE InDocumentOrder(_)
InDocumentOrder(points) ==
    /\ \A i, j \in 1..Len(points) : i < j => points[i].id < points[j].id
    /\ \A i \in 1..Len(points) : InDocumentOrder(points[i].children)

\* Every sibling list below and including points is in non-decreasing playOrder,
\* equal playOrder in document order.
RECURSIVE SortedStably(_)
SortedStably(points) ==
    /\ \A i, j \in 1..Len(points) : i < j =>
          \/ points[i].play_order < points[j].play_order
          \/ /\ points[i].play_order = points[j].play_order
             /\ points[i].id < points[j].id
    /\ \A i \in 1..Len(points) : SortedStably(points[i].children)

RECURSIVE TreeDepth(_)
TreeDepth(points) ==
    IF points = <<>> THEN 0
    ELSE LET d[i \in 0..Len(points)] ==
                IF i = 0 THEN 0
                ELSE LET c == 1 + TreeDepth(points[i].children)
                     IN  IF c > d[i - 1] THEN c ELSE d[i - 1]
         IN  d[Len(points)]

InProgressPoints ==
    nav_point_stack \o current_nav_point

\* C1: the parent/child relation the parser builds equals XML containment.
\* While parsing, the points in progress are exactly the open navPoint elements
\* (the innermost one is the current point), every closed navPoint hangs under
\* its XML parent (or is a root of the map when it has none), and each one was
\* attached as the last of its siblings; in the result the edges of the tree are
\* the containment edges of the whole document.
C1_TreeEqualsContainment ==
    /\ ncxPc = "parsing" =>
          /\ [i \in 1..Len(InProgressPoints) |-> InProgressPoints[i].id] = OpenNavPoints(ncxDoc)
          /\ ForestEdges(nav_map) \cup UNION {PointEdges(InProgressPoints[i]) : i \in 1..Len(InProgressPoints)}
                = {e \in XmlEdges(ncxDoc) : e[2] \in ClosedNavPoints(ncxDoc)}
          /\ InDocumentOrder(nav_map \o InProgressPoints)
    /\ ncxPc = "done" => ForestEdges(nav_map) = XmlEdges(ncxDoc)

\* A finished parse with two roots, one of them with a child that has a child.
C1_Witness ==
    /\ ncxPc = "done"
    /\ Len(nav_map) = 2
    /\ TreeDepth(nav_map) = 3

\* C2: after parse_xml returns, every level of the navigation map is in
\* non-decreasing playOrder, and equal playOrder keeps document order.
C2_SortedStably ==
    ncxPc = "done" => SortedStably(nav_map)

\* A result whose second level was out of order in the document and has a tie.
C2_Witness ==
    /\ ncxPc = "done"
    /\ \E r \in 1..Len(nav_map) :
          /\ Len(nav_map[r].children) = 3
          /\ ~InDocumentOrder(nav_map[r].children)
          /\ nav_map[r].children[1].play_order = nav_map[r].children[2].play_order

\* The largest number of navPoint elements open at once in the document.
XmlNestingDepth(doc) ==
    LET depths == {Len(OpenNavPoints(Prefix(doc, i))) : i \in 0..Len(doc)}
    IN  CHOOSE d \in depths : \A e \in depths : e <= d

\* C15 as stated: the tree's max_depth equals the XML nesting depth D, a
\* flat list of navPoints having D = 1.
C15_MaxDepthEqualsNesting ==
    ncxPc = "tree" => statistics_max_depth(toc_roots) = XmlNestingDepth(ncxDoc)

\* C15, amended: roots are at depth 0, so the tree's max_depth is D - 1 for
\* a document with navPoints (D >= 1), and 0 for a document without any.
C15_MaxDepthIsNestingMinusOne ==
    ncxPc = "tree" =>
        statistics_max_depth(toc_roots) =
            IF XmlNestingDepth(ncxDoc) = 0 THEN 0 ELSE XmlNestingDepth(ncxDoc) - 1

\* A tree built from navPoints nested three levels deep, beside a flat root.
C15_Witness ==
    /\ ncxPc = "tree"
    /\ Len(toc_roots) = 2
    /\ XmlNestingDepth(ncxDoc) = 3
    /\ statistics_max_depth(toc_roots) = 2


(***************************************************************************)
(* Content-path resolution: TocTreeNode::get_html_content and              *)
(* TocTree::get_node_html_content (ncx/toc_tree.rs), against the EpubPaths *)
(* of the facade (reader.rs:497-555).  A path is a sequence of the         *)
(* characters "a" (any name character), "." and "/".                       *)
(***************************************************************************)
MaxSrcLen == 4

PathChars == {"a", ".", "/"}

StrUpTo(n) == UNION {[1..k -> PathChars] : k \in 0..n}

\* Package paths a container may select, and hrefs of the manifest item the
\* spine's toc attribute names (none: no navigation document is found).
OpfPaths == { <<"a">>, <<"a", "/", "a">>, <<"a", "a", "/", "a", "/", "a">> }
NcxHrefs == { <<"a">>, <<"a", "/", "a">>, <<".", ".", "/", "a">>, <<".", "/", "a">>,
              <<"a", "/", "/", "a">> }

\* str.rfind('/'): the position of the last '/', 0 for none.
rfind_slash(s) ==
    LET at == {i \in 1..Len(s) : s[i] = "/"}
    IN  IF at = {} THEN 0 ELSE CHOOSE i \in at : \A j \in at : j <= i

\* The text before the last '/', empty without one (reader.rs:472-476, 505-509).
DirectoryOf(path) ==
    IF rfind_slash(path) > 0 THEN SubSeq(path, 1, rfind_slash(path) - 1) ELSE <<>>

\* find_ncx_path, the spine-toc branch (reader.rs:529-534).
JoinHref(opf_directory, href) ==
    IF opf_directory = <<>> THEN href ELSE opf_directory \o <<"/">> \o href

\* EpubPaths as Epub::paths builds it (reader.rs:505-518).
EpubPathsOf(opf_path, ncx_href) ==
    [opf_path |-> opf_path,
     opf_directory |-> DirectoryOf(opf_path),
     ncx_path |-> IF ncx_href = None THEN None
                  ELSE Some(JoinHref(DirectoryOf(opf_path), ncx_href[1]))]

\* The segments of s between its '/' characters, empty ones included.
RECURSIVE SplitSlash(_)
SplitSlash(s) ==
    LET at == {i \in 1..Len(s) : s[i] = "/"}
    IN  IF at = {} THEN <<s>>
        ELSE LET i == CHOOSE k \in at : \A j \in at : k <= j
             IN  <<SubSeq(s, 1, i - 1)>> \o SplitSlash(SubSeq(s, i + 1, Len(s)))

RECURSIVE JoinSlash(_)
JoinSlash(parts) ==
    IF parts = <<>> THEN <<>>
    ELSE IF Len(parts) = 1 THEN parts[1]
    ELSE parts[1] \o <<"/">> \o JoinSlash(Tail(parts))

\* PathBuf::push as std defines it on Unix: an absolute argument replaces the
\* path, otherwise a separator is added unless the path already ends in one.
PathBuf_push_concat(path, src) == path \o src

PathBuf_push(path, src) ==
    IF src # <<>> /\ src[1] = "/" THEN src
    ELSE IF path = <<>> \/ path[Len(path)] = "/" THEN path \o src
    ELSE path \o <<"/">> \o src

\* Path::components as std defines it on Unix: RootDir for a leading '/', empty
\* segments skipped, "." skipped except as the first segment of a relative path
\* (CurDir), ".." is ParentDir, anything else Normal.
Components(path) ==
    LET segs == SplitSlash(path)
        kindOf(i) ==
            IF segs[i] = <<>> THEN "skip"
            ELSE IF segs[i] = <<".">> THEN (IF i = 1 THEN "CurDir" ELSE "skip")
            ELSE IF segs[i] = <<".", ".">> THEN "ParentDir"
            ELSE "Normal"
        RECURSIVE From(_)
        From(i) ==
            IF i > Len(segs) THEN <<>>
            ELSE IF kindOf(i) = "skip" THEN From(i + 1)
            ELSE <<[kind |-> kindOf(i), name |-> segs[i]]>> \o From(i + 1)
    IN  (IF path # <<>> /\ path[1] = "/" THEN <<[kind |-> "RootDir", name |-> <<>>]>> ELSE <<>>)
        \o From(1)

\* A normalisation that leaves ".." in place of popping.
normalize_path_no_pop(path) ==
    LET comps == Components(path)
        keep == [i \in 1..Len(comps) |-> comps[i].kind \in {"Normal", "ParentDir"}]
        RECURSIVE Kept(_)
        Kept(i) == IF i > Len(comps) THEN <<>>
                   ELSE IF keep[i] THEN <<comps[i].name>> \o Kept(i + 1) ELSE Kept(i + 1)
    IN  JoinSlash(Kept(1))

\* TocTreeNode::normalize_path (toc_tree.rs:269-294)
normalize_path(path) ==
    LET comps == Components(path)
        RECURSIVE Fold(_, _)
        Fold(i, components) ==
            IF i > Len(comps) THEN components
            ELSE IF comps[i].kind = "ParentDir"
                 THEN Fold(i + 1, SubSeq(components, 1, Len(components) - 1))
            ELSE IF comps[i].kind = "Normal"
                 THEN Fold(i + 1, Append(components, comps[i].name))
            ELSE Fold(i + 1, components)
    IN  JoinSlash(Fold(1, <<>>))

\* A lookup that answers with the package directory.
get_ncx_directory_of_opf(paths) ==
    IF paths.ncx_path = None THEN None ELSE Some(paths.opf_directory)

\* Epub::get_ncx_directory (reader.rs:468-481)
get_ncx_directory(paths) ==
    IF paths.ncx_path = None THEN None ELSE Some(DirectoryOf(paths.ncx_path[1]))

\* Epub::get_opf_directory (reader.rs:459-462)
get_opf_directory(paths) == paths.opf_directory

\* The path handed to read_chapter_file (toc_tree.rs:221-249, 1164-1192).
ContentPath(paths, src) ==
    LET ncx_dir == get_ncx_directory(paths)
    IN  IF ncx_dir # None
        THEN IF ncx_dir[1] = <<>> THEN src
             ELSE normalize_path(PathBuf_push(ncx_dir[1], src))
        ELSE LET opf_dir == get_opf_directory(paths)
             IN  IF opf_dir = <<>> THEN src
                 ELSE normalize_path(PathBuf_push(opf_dir, src))

InitPath ==
    /\ IdleOpen
    /\ IdlePackage
    /\ IdleFacade
    /\ IdleMeta
    /\ IdleNcx
    /\ IdleContainer
    /\ pathPc = "ready"
    /\ epubPaths \in {EpubPathsOf(o, h) : o \in OpfPaths,
                                          h \in {None} \cup {Some(x) : x \in NcxHrefs}}
    /\ nodeSrc = <<>>
    /\ fullPath = <<>>

\* TocTreeNode::get_html_content (toc_tree.rs:219-258)
get_html_content(src) ==
    /\ pathPc = "ready"
    /\ nodeSrc' = src
    /\ fullPath' = ContentPath(epubPaths, src)
    /\ pathPc' = "node"
    /\ UNCHANGED epubPaths
    /\ UNCHANGED notPath

\* TocTree::get_node_html_content (toc_tree.rs:1162-1201)
get_node_html_content(src) ==
    /\ pathPc = "ready"
    /\ nodeSrc' = src
    /\ fullPath' = ContentPath(epubPaths, src)
    /\ pathPc' = "tree"
    /\ UNCHANGED epubPaths
    /\ UNCHANGED notPath

NextPath ==
    \/ \E src \in StrUpTo(MaxSrcLen) : get_html_content(src)
    \/ \E src \in StrUpTo(MaxSrcLen) : get_node_html_content(src)


\* The reference normalisation of the claims: split at '/', a component is a
\* non-empty segment; "." is dropped, ".." removes the component kept last (if
\* any), the rest is rejoined with '/'.
RefNormalize(s) ==
    LET segs == SplitSlash(s)
        RECURSIVE Walk(_, _)
        Walk(i, kept) ==
            IF i > Len(segs) THEN kept
            ELSE IF segs[i] = <<>> \/ segs[i] = <<".">> THEN Walk(i + 1, kept)
            ELSE IF segs[i] = <<".", ".">>
                 THEN Walk(i + 1, IF kept = <<>> THEN kept ELSE SubSeq(kept, 1, Len(kept) - 1))
            ELSE Walk(i + 1, Append(kept, segs[i]))
    IN  JoinSlash(Walk(1, <<>>))

IsRelative(src) == src = <<>> \/ src[1] # "/"

Resolved == pathPc \in {"node", "tree"}

\* The directory the claims call D: the navigation document's directory when a
\* navigation-document path exists, else the package directory.
BaseDirectory ==
    IF epubPaths.ncx_path # None THEN DirectoryOf(epubPaths.ncx_path[1])
    ELSE epubPaths.opf_directory

\* C3: for a non-empty directory D and a relative source S the path read is the
\* reference normalisation of D joined with S; for the empty directory and a
\* source that is already plain (chapter1.xhtml) it is that source.
C3_PathIsReferenceNormalisation ==
    (Resolved /\ IsRelative(nodeSrc)) =>
        /\ BaseDirectory # <<>> =>
              fullPath = RefNormalize(BaseDirectory \o <<"/">> \o nodeSrc)
        /\ (BaseDirectory = <<>> /\ nodeSrc = RefNormalize(nodeSrc)) =>
              fullPath = RefNormalize(nodeSrc)

\* D = aa/a (OEBPS/text), S = ../a (../images/x.png without its directory)
\* resolved to aa/a (OEBPS/x.png).
C3_Witness ==
    /\ pathPc = "node"
    /\ BaseDirectory = <<"a", "a", "/", "a">>
    /\ nodeSrc = <<".", ".", "/", "a">>
    /\ fullPath = <<"a", "a", "/", "a">>

\* C4: for every directory, the empty one included, and every relative source
\* the path read has no "." and no ".." component.
C4_NoDotComponents ==
    (Resolved /\ IsRelative(nodeSrc)) =>
        \A i \in 1..Len(SplitSlash(fullPath)) :
            SplitSlash(fullPath)[i] \notin {<<".">>, <<".", ".">>}

\* The source joined with directory dir, as both branches of the method do.
JoinedWith(dir) ==
    IF dir = <<>> THEN nodeSrc ELSE normalize_path(PathBuf_push(dir, nodeSrc))

\* C5: whenever a navigation-document path exists the source is joined with the
\* navigation document's directory, never the package directory; the package
\* directory is used only when there is no navigation document.
C5_BaseDirectorySelection ==
    Resolved =>
        /\ epubPaths.ncx_path # None =>
              fullPath = JoinedWith(DirectoryOf(epubPaths.ncx_path[1]))
        /\ epubPaths.ncx_path = None =>
              fullPath = JoinedWith(epubPaths.opf_directory)

\* A navigation document in another directory than the package document, and a
\* source for which the two directories give different paths.
C5_Witness ==
    /\ pathPc = "tree"
    /\ epubPaths.ncx_path # None
    /\ DirectoryOf(epubPaths.ncx_path[1]) # epubPaths.opf_directory
    /\ fullPath # JoinedWith(epubPaths.opf_directory)
    /\ fullPath = JoinedWith(DirectoryOf(epubPaths.ncx_path[1]))


(***************************************************************************)
(* Container::parse_xml (container.rs:26-89): one action per XML event.    *)
(* Start and Empty events are handled alike (container.rs:37) and the      *)
(* reader expands empty elements, so <rootfile .../> is a Start and an End.*)
(***************************************************************************)
MaxRootfileElements == 3
MaxRootfilesElements == 2

PackageMediaType == "application/oebps-package+xml"

\* The full-path and media-type attributes of the rootfile elements explored;
\* "" is a missing or empty attribute.
RootfileAttrs ==
    { [full_path |-> "book.opf", media_type |-> PackageMediaType],
      [full_path |-> "toc.ncx", media_type |-> "application/x-dtbncx+xml"],
      [full_path |-> "", media_type |-> PackageMediaType],
      [full_path |-> "alt.opf", media_type |-> ""],
      [full_path |-> "second.opf", media_type |-> PackageMediaType] }

\* Outside a rootfiles element the attributes make no difference to the
\* handler; the elements generated there carry complete attributes.
OutsideRootfileAttrs ==
    { [full_path |-> "book.opf", media_type |-> PackageMediaType],
      [full_path |-> "toc.ncx", media_type |-> "application/x-dtbncx+xml"] }

NoAttrs == [full_path |-> "", media_type |-> ""]

CStart(name, attrs) == [type |-> "start", name |-> name, attrs |-> attrs]
CEnd(name) == [type |-> "end", name |-> name, attrs |-> NoAttrs]

CountStarts(doc, name) ==
    Cardinality({i \in 1..Len(doc) : doc[i].type = "start" /\ doc[i].name = name})

\* A handler that records a rootfile wherever it stands.
record_rootfile_anywhere(inside, files, attrs) ==
    IF attrs.full_path # "" /\ attrs.media_type # ""
    THEN Append(files, [full_path |-> attrs.full_path, media_type |-> attrs.media_type])
    ELSE files

\* The b"rootfile" if in_rootfiles arm (container.rs:43-67).
record_rootfile(inside, files, attrs) ==
    IF inside /\ attrs.full_path # "" /\ attrs.media_type # ""
    THEN Append(files, [full_path |-> attrs.full_path, media_type |-> attrs.media_type])
    ELSE files

\* A result that is Ok whatever was recorded.
parse_xml_result_always_ok(files) == "ok"

\* The return of Container::parse_xml (container.rs:82-88).
parse_xml_result(files) == IF files = <<>> THEN "err" ELSE "ok"

\* A selection that takes the first entry whatever its media type.
get_opf_path_first_entry(files) ==
    IF files = <<>> THEN None ELSE Some(files[1].full_path)

\* The for loop of get_opf_path (container.rs:97-101).
RECURSIVE FirstPackage(_)
FirstPackage(files) ==
    IF files = <<>> THEN None
    ELSE IF Head(files).media_type = PackageMediaType
         THEN Some(Head(files).full_path)
         ELSE FirstPackage(Tail(files))

\* Container::get_opf_path (container.rs:95-105)
get_opf_path(files) ==
    IF FirstPackage(files) # None THEN FirstPackage(files)
    ELSE IF files = <<>> THEN None
    ELSE Some(files[1].full_path)

InitContainer ==
    /\ IdleOpen
    /\ IdlePackage
    /\ IdleFacade
    /\ IdleMeta
    /\ IdleNcx
    /\ IdlePath
    /\ containerPc = "parsing"
    /\ containerDoc = <<>>
    /\ in_rootfiles = FALSE
    /\ rootfiles = <<>>

\* Start of the root element <container>: no arm matches (container.rs:68).
StartContainer ==
    /\ containerPc = "parsing"
    /\ containerDoc = <<>>
    /\ containerDoc' = Append(containerDoc, CStart("container", NoAttrs))
    /\ UNCHANGED <<containerPc, in_rootfiles, rootfiles>>
    /\ UNCHANGED notContainer

\* Start of <rootfiles> (container.rs:40-42)
StartRootfiles ==
    /\ containerPc = "parsing"
    /\ OpenElements(containerDoc) = <<"container">>
    /\ CountStarts(containerDoc, "rootfiles") < MaxRootfilesElements
    /\ containerDoc' = Append(containerDoc, CStart("rootfiles", NoAttrs))
    /\ in_rootfiles' = TRUE
    /\ UNCHANGED <<containerPc, rootfiles>>
    /\ UNCHANGED notContainer

\* <rootfile .../>: its Start (container.rs:43-67) and its End, which matches
\* nothing (container.rs:71-75).
RootfileElement(attrs) ==
    /\ containerPc = "parsing"
    /\ OpenElements(containerDoc) # <<>>
    /\ CountStarts(containerDoc, "rootfile") < MaxRootfileElements
    /\ in_rootfiles \/ attrs \in OutsideRootfileAttrs
    /\ containerDoc' = containerDoc \o <<CStart("rootfile", attrs), CEnd("rootfile")>>
    /\ rootfiles' = record_rootfile(in_rootfiles, rootfiles, attrs)
    /\ UNCHANGED <<containerPc, in_rootfiles>>
    /\ UNCHANGED notContainer

\* End of </rootfiles> (container.rs:72-74)
EndRootfiles ==
    /\ containerPc = "parsing"
    /\ OpenElements(containerDoc) = <<"container", "rootfiles">>
    /\ containerDoc' = Append(containerDoc, CEnd("rootfiles"))
    /\ in_rootfiles' = FALSE
    /\ UNCHANGED <<containerPc, rootfiles>>
    /\ UNCHANGED notContainer

\* End of </container>: not rootfiles, nothing changes (container.rs:71-75).
EndContainer ==
    /\ containerPc = "parsing"
    /\ OpenElements(containerDoc) = <<"container">>
    /\ containerDoc' = Append(containerDoc, CEnd("container"))
    /\ UNCHANGED <<containerPc, in_rootfiles, rootfiles>>
    /\ UNCHANGED notContainer

\* Event::Eof and the return (container.rs:76, 82-88)
ContainerEof ==
    /\ containerPc = "parsing"
    /\ containerDoc # <<>>
    /\ OpenElements(containerDoc) = <<>>
    /\ containerPc' = parse_xml_result(rootfiles)
    /\ UNCHANGED <<containerDoc, in_rootfiles, rootfiles>>
    /\ UNCHANGED notContainer

NextContainer ==
    \/ StartContainer
    \/ StartRootfiles
    \/ \E attrs \in RootfileAttrs : RootfileElement(attrs)
    \/ EndRootfiles
    \/ EndContainer
    \/ ContainerEof

\* The rootfile entries of a document, read off the document alone: the
\* rootfile start tags that stand inside an open rootfiles element and have a
\* non-empty full-path and media-type, in source order.
RECURSIVE WellFormedRootfiles(_)
WellFormedRootfiles(doc) ==
    IF doc = <<>> THEN <<>>
    ELSE LET before == Prefix(doc, Len(doc) - 1)
             ev == doc[Len(doc)]
         IN  IF /\ ev.type = "start"
                /\ ev.name = "rootfile"
                /\ "rootfiles" \in SeqToSet(OpenElements(before))
                /\ ev.attrs.full_path # ""
                /\ ev.attrs.media_type # ""
             THEN Append(WellFormedRootfiles(before), ev.attrs)
             ELSE WellFormedRootfiles(before)

PackagePositions(files) ==
    {i \in 1..Len(files) : files[i].media_type = PackageMediaType}

\* C11: for every entry list the parser can hold, get_opf_path is the path
\* of the entry of the package media type that comes first in source order;
\* without such an entry it is the path of the first entry; it is none only
\* for the empty list.
C11_PackagePathSelection ==
    LET pk == PackagePositions(rootfiles)
    IN  /\ pk # {} =>
              \E i \in pk : /\ \A j \in pk : i <= j
                            /\ get_opf_path(rootfiles) = Some(rootfiles[i].full_path)
        /\ (pk = {} /\ rootfiles # <<>>) =>
              get_opf_path(rootfiles) = Some(rootfiles[1].full_path)
        /\ (get_opf_path(rootfiles) = None) <=> (rootfiles = <<>>)

\* Two entries of the package media type behind an entry of another type:
\* the selection is the first of the two, not the first entry.
C11_Witness ==
    /\ containerPc = "ok"
    /\ Len(rootfiles) = 3
    /\ rootfiles[1].full_path = "toc.ncx"
    /\ rootfiles[2].full_path = "second.opf"
    /\ rootfiles[3].full_path = "book.opf"
    /\ get_opf_path(rootfiles) = Some("second.opf")

\* C12: once the whole document was read, the result is the structural
\* error exactly when no rootfile entry was recorded, and a container that
\* was returned holds at least one entry.
C12_ErrorIffNoEntries ==
    /\ containerPc = "err" => rootfiles = <<>>
    /\ containerPc = "ok" => Len(rootfiles) >= 1
    /\ containerPc \in {"ok", "err"} =>
          ((containerPc = "err") <=> (Len(WellFormedRootfiles(containerDoc)) = 0))

\* A document that has rootfile elements, none of them recorded, fails.
C12_Witness ==
    /\ containerPc = "err"
    /\ CountStarts(containerDoc, "rootfile") >= 2
    /\ CountStarts(containerDoc, "rootfiles") >= 1



(***************************************************************************)
(* Metadata (opf/metadata.rs): the store and Metadata::creators.           *)
(* Element text, attribute values and meta contents are character          *)
(* sequences; tag names, property names and ids are plain strings.         *)
(***************************************************************************)
MaxMetadataAdds == 3

S_aut == <<"a", "u", "t">>
S_edt == <<"e", "d", "t">>
S_trl == <<"t", "r", "l">>
S_ill == <<"i", "l", "l">>
S_pbl == <<"p", "b", "l">>
S_author == <<"a", "u", "t", "h", "o", "r">>
S_editor == <<"e", "d", "i", "t", "o", "r">>
S_translator == <<"t", "r", "a", "n", "s", "l", "a", "t", "o", "r">>
S_illustrator == <<"i", "l", "l", "u", "s", "t", "r", "a", "t", "o", "r">>
S_1 == <<"1">>
S_plus2 == <<"+", "2">>
S_1x == <<"1", "x">>
S_Rowling == <<"R">>
S_Other == <<"O">>

\* MetadataTagConfigs::default_config, the creator field (config.rs:136-139).
creator_tags == <<"creator", "author">>
contributor_tags == <<"contributor">>
identifier_tags == <<"identifier">>
subject_tags == <<"subject">>

\* HashMap::get
MapGet(map, key) == IF key \in DOMAIN map THEN Some(map[key]) ELSE None

\* map.entry(key).or_insert_with(Vec::new).push(value)
MapPush(map, key, value) ==
    [k \in DOMAIN map \cup {key} |->
        IF k = key
        THEN (IF key \in DOMAIN map THEN Append(map[key], value) ELSE <<value>>)
        ELSE map[k]]

DublinCore(value, attributes) ==
    [kind |-> "DublinCore", value |-> value, attributes |-> attributes]

NameBased(content) == [kind |-> "NameBased", content |-> content]

RefinesBased(refines_id, property, content, scheme) ==
    [kind |-> "RefinesBased", refines_id |-> refines_id, property |-> property,
     content |-> content, scheme |-> scheme]

\* The key under which a refines fact is also kept in the raw map:
\* format!("refines-{}", refines_id) (metadata.rs:132).
RefinesKey(refines_id) ==
    CASE refines_id = "c1" -> "refines-c1"
      [] refines_id = "c2" -> "refines-c2"

\* str::parse::<u32>: an optional '+', then one or more decimal digits;
\* anything else is an error (None).  A number of at most nine digits is
\* below 10^9 < 2^32 and cannot overflow; the contents explored are shorter
\* than that, so the overflow error is not part of this operator.
DigitChars == {"0", "1", "2", "3", "4", "5", "6", "7", "8", "9"}

DigitValue(c) ==
    CASE c = "0" -> 0 [] c = "1" -> 1 [] c = "2" -> 2 [] c = "3" -> 3 [] c = "4" -> 4
      [] c = "5" -> 5 [] c = "6" -> 6 [] c = "7" -> 7 [] c = "8" -> 8 [] OTHER -> 9

ParseU32(s) ==
    LET digits == IF s # <<>> /\ s[1] = "+" THEN Tail(s) ELSE s
        RECURSIVE Value(_)
        Value(n) == IF n = 0 THEN 0 ELSE 10 * Value(n - 1) + DigitValue(digits[n])
    IN  IF digits = <<>> \/ \E i \in 1..Len(digits) : digits[i] \notin DigitChars
        THEN None
        ELSE Some(Value(Len(digits)))

\* The relator-code mapping of extract_creator (metadata.rs:306-312).
MapRelator(content) ==
    IF content = S_aut THEN S_author
    ELSE IF content = S_edt THEN S_editor
    ELSE IF content = S_trl THEN S_translator
    ELSE IF content = S_ill THEN S_illustrator
    ELSE content

\* A lookup that stops at the first candidate name that has values, as
\* find_by_tags does.
RECURSIVE find_all_by_tags_first_name(_)
find_all_by_tags_first_name(tags) ==
    IF tags = <<>> THEN <<>>
    ELSE IF tags[1] \in DOMAIN raw_metadata THEN raw_metadata[tags[1]]
    ELSE find_all_by_tags_first_name(Tail(tags))

\* Metadata::find_all_by_tags (metadata.rs:155-163)
RECURSIVE find_all_by_tags(_)
find_all_by_tags(tags) ==
    IF tags = <<>> THEN <<>>
    ELSE (IF tags[1] \in DOMAIN raw_metadata THEN raw_metadata[tags[1]] ELSE <<>>)
         \o find_all_by_tags(Tail(tags))

\* The loop over the refines facts of one id (metadata.rs:301-320).
RECURSIVE ApplyRefines(_, _)
ApplyRefines(creator, refines_list) ==
    IF refines_list = <<>> THEN creator
    ELSE LET refines == Head(refines_list)
             next ==
                IF refines.kind # "RefinesBased" THEN creator
                ELSE IF refines.property = "role"
                     THEN [creator EXCEPT !.role = Some(MapRelator(refines.content))]
                ELSE IF refines.property = "display-seq"
                     THEN [creator EXCEPT !.display_seq = ParseU32(refines.content)]
                ELSE creator
         IN  ApplyRefines(next, Tail(refines_list))

\* An extraction in which a role attribute, when present, is not overridden.
extract_creator_attribute_wins(value) ==
    IF value.kind = "DublinCore"
    THEN LET creator == [name |-> value.value,
                         role |-> MapGet(value.attributes, "role"),
                         display_seq |-> None,
                         id |-> MapGet(value.attributes, "id")]
             refined ==
                IF creator.id # None /\ creator.id[1] \in DOMAIN refines_metadata
                THEN ApplyRefines(creator, refines_metadata[creator.id[1]])
                ELSE creator
         IN  IF creator.role # None THEN [refined EXCEPT !.role = creator.role] ELSE refined
    ELSE [name |-> value.content, role |-> None, display_seq |-> None, id |-> None]

\* Metadata::extract_creator (metadata.rs:288-340); it always returns Some.
extract_creator(value) ==
    IF value.kind = "DublinCore"
    THEN LET creator == [name |-> value.value,
                         role |-> MapGet(value.attributes, "role"),
                         display_seq |-> None,
                         id |-> MapGet(value.attributes, "id")]
         IN  IF creator.id # None /\ creator.id[1] \in DOMAIN refines_metadata
             THEN ApplyRefines(creator, refines_metadata[creator.id[1]])
             ELSE creator
    ELSE [name |-> value.content, role |-> None, display_seq |-> None, id |-> None]

\* Metadata::creators (metadata.rs:172-177)
creators ==
    LET found == find_all_by_tags(creator_tags)
    IN  [i \in 1..Len(found) |-> extract_creator(found[i])]

\* Metadata::extract_content (metadata.rs:276-285); it always returns Some.
extract_content(value) ==
    IF value.kind = "DublinCore" THEN value.value ELSE value.content

\* Metadata::extract_identifier (metadata.rs:343-363); it always returns Some.
extract_identifier(value) ==
    IF value.kind = "DublinCore"
    THEN [value |-> value.value,
          scheme |-> MapGet(value.attributes, "scheme"),
          id |-> MapGet(value.attributes, "id")]
    ELSE [value |-> value.content, scheme |-> None, id |-> None]

\* Metadata::contributors (metadata.rs:180-185)
contributors ==
    LET found == find_all_by_tags(contributor_tags)
    IN  [i \in 1..Len(found) |-> extract_creator(found[i])]

\* Metadata::identifiers (metadata.rs:194-199)
identifiers ==
    LET found == find_all_by_tags(identifier_tags)
    IN  [i \in 1..Len(found) |-> extract_identifier(found[i])]

\* Metadata::subjects (metadata.rs:220-225)
subjects ==
    LET found == find_all_by_tags(subject_tags)
    IN  [i \in 1..Len(found) |-> extract_content(found[i])]

\* The inputs explored: Dublin-Core elements, refines facts, name-based metas.
DublinCoreInputs ==
    { [tag |-> "creator", value |-> v, attributes |-> a] :
         v \in {S_Rowling, S_Other},
         a \in { EmptyMap,
                 [k \in {"id"} |-> "c1"],
                 [k \in {"id", "role"} |-> IF k = "id" THEN "c1" ELSE S_pbl],
                 [k \in {"id"} |-> "c2"] } }
    \cup { [tag |-> "title", value |-> S_Other, attributes |-> EmptyMap],
           [tag |-> "contributor", value |-> S_Other, attributes |-> [k \in {"id"} |-> "c2"]],
           [tag |-> "identifier", value |-> S_1, attributes |-> [k \in {"scheme"} |-> "ISBN"]],
           [tag |-> "subject", value |-> S_Rowling, attributes |-> EmptyMap] }

RefinesInputs ==
    { [refines_id |-> "c1", property |-> "role", content |-> c, scheme |-> Some("marc:relators")] :
         c \in {S_aut, S_edt, S_trl, S_ill, S_pbl} }
    \cup { [refines_id |-> "c1", property |-> "display-seq", content |-> c, scheme |-> None] :
         c \in {S_1, S_plus2, S_1x} }
    \cup { [refines_id |-> "c1", property |-> "file-as", content |-> S_Other, scheme |-> None],
           [refines_id |-> "c2", property |-> "role", content |-> S_edt, scheme |-> None],
           [refines_id |-> "c2", property |-> "display-seq", content |-> S_plus2, scheme |-> None] }

NameBasedInputs ==
    { [name |-> n, content |-> S_Other] : n \in {"author", "creator", "subject", "identifier"} }

\* Metadata::new (metadata.rs:85-91)
InitMeta ==
    /\ IdleOpen
    /\ IdlePackage
    /\ IdleFacade
    /\ IdleNcx
    /\ IdlePath
    /\ IdleContainer
    /\ metaPc = "open"
    /\ raw_metadata = EmptyMap
    /\ refines_metadata = EmptyMap
    /\ metaAdds = 0

\* Metadata::add_dublin_core (metadata.rs:94-100)
add_dublin_core(tag, value, attributes) ==
    /\ metaPc = "open"
    /\ metaAdds < MaxMetadataAdds
    /\ raw_metadata' = MapPush(raw_metadata, tag, DublinCore(value, attributes))
    /\ metaAdds' = metaAdds + 1
    /\ UNCHANGED <<metaPc, refines_metadata>>
    /\ UNCHANGED notMeta

\* Metadata::add_meta_name_based (metadata.rs:103-109)
add_meta_name_based(name, content) ==
    /\ metaPc = "open"
    /\ metaAdds < MaxMetadataAdds
    /\ raw_metadata' = MapPush(raw_metadata, name, NameBased(content))
    /\ metaAdds' = metaAdds + 1
    /\ UNCHANGED <<metaPc, refines_metadata>>
    /\ UNCHANGED notMeta

\* An add that keeps the fact in the raw map only.
add_meta_refines_based_raw_only(refines_id, property, content, scheme) ==
    /\ metaPc = "open"
    /\ metaAdds < MaxMetadataAdds
    /\ raw_metadata' = MapPush(raw_metadata, RefinesKey(refines_id),
                               RefinesBased(refines_id, property, content, scheme))
    /\ metaAdds' = metaAdds + 1
    /\ UNCHANGED <<metaPc, refines_metadata>>
    /\ UNCHANGED notMeta

\* Metadata::add_meta_refines_based (metadata.rs:121-140)
add_meta_refines_based(refines_id, property, content, scheme) ==
    /\ metaPc = "open"
    /\ metaAdds < MaxMetadataAdds
    /\ raw_metadata' = MapPush(raw_metadata, RefinesKey(refines_id),
                               RefinesBased(refines_id, property, content, scheme))
    /\ refines_metadata' = MapPush(refines_metadata, refines_id,
                                   RefinesBased(refines_id, property, content, scheme))
    /\ metaAdds' = metaAdds + 1
    /\ UNCHANGED metaPc
    /\ UNCHANGED notMeta

NextMeta ==
    \/ \E d \in DublinCoreInputs : add_dublin_core(d.tag, d.value, d.attributes)
    \/ \E m \in NameBasedInputs : add_meta_name_based(m.name, m.content)
    \/ \E r \in RefinesInputs :
          add_meta_refines_based(r.refines_id, r.property, r.content, r.scheme)


(***************************************************************************)
(* C9: creator reconciliation.                                             *)
(***************************************************************************)
\* The relator codes and their names, as the claim lists them.
RelatorName(code) ==
    CASE code = S_aut -> S_author
      [] code = S_edt -> S_editor
      [] code = S_trl -> S_translator
      [] code = S_ill -> S_illustrator
      [] OTHER -> code

\* The refines facts recorded for id I with the given property, in the order
\* they were added.
FactsFor(I, property) ==
    IF I \in DOMAIN refines_metadata
    THEN SelectSeq(refines_metadata[I], LAMBDA f : f.property = property)
    ELSE <<>>

Last(seq) == seq[Len(seq)]

\* C9: every Dublin-Core creator element that carries an id attribute I
\* resolves to a creator whose name is the element text and whose id is I;
\* its role is the mapped relator of the role fact recorded for I (the last
\* one when several were recorded), overriding a role attribute, and the role
\* attribute when no role fact exists; its display sequence is the parsed
\* integer of the display-seq fact for I, unset when the fact does not parse
\* or does not exist.
C9_CreatorReconciliation ==
    LET found == find_all_by_tags(creator_tags)
    IN  /\ Len(creators) = Len(found)
        /\ \A i \in 1..Len(found) :
              (found[i].kind = "DublinCore" /\ "id" \in DOMAIN found[i].attributes) =>
                 LET I == found[i].attributes["id"]
                     roles == FactsFor(I, "role")
                     seqs == FactsFor(I, "display-seq")
                     c == creators[i]
                 IN  /\ c.name = found[i].value
                     /\ c.id = Some(I)
                     /\ roles # <<>> => c.role = Some(RelatorName(Last(roles).content))
                     /\ roles = <<>> => c.role = MapGet(found[i].attributes, "role")
                     /\ seqs # <<>> => c.display_seq = ParseU32(Last(seqs).content)
                     /\ seqs = <<>> => c.display_seq = None

\* The example of the claim: the creator element c1, carrying a role
\* attribute, with the facts role=aut and display-seq=1 resolves to
\* {role: author, displaySeq: 1, id: c1}.
C9_Witness ==
    /\ metaPc = "open"
    /\ "creator" \in DOMAIN raw_metadata
    /\ raw_metadata["creator"][1].kind = "DublinCore"
    /\ DOMAIN raw_metadata["creator"][1].attributes = {"id", "role"}
    /\ raw_metadata["creator"][1].attributes["id"] = "c1"
    /\ FactsFor("c1", "role") # <<>>
    /\ Last(FactsFor("c1", "role")).content = S_aut
    /\ FactsFor("c1", "display-seq") # <<>>
    /\ Last(FactsFor("c1", "display-seq")).content = S_1
    /\ creators[1] = [name |-> S_Rowling, role |-> Some(S_author),
                      display_seq |-> Some(1), id |-> Some("c1")]


(***************************************************************************)
(* C39: the join of creators and refines facts does not depend on the      *)
(* order of the adds.                                                      *)
(***************************************************************************)
\* The creator a Dublin-Core element yields before any fact is joined.
Unrefined(element) ==
    [name |-> element.value,
     role |-> MapGet(element.attributes, "role"),
     display_seq |-> None,
     id |-> MapGet(element.attributes, "id")]

\* The step adds the refines fact r.
FactAdded(r) ==
    raw_metadata' = MapPush(raw_metadata, RefinesKey(r.refines_id),
                            RefinesBased(r.refines_id, r.property, r.content, r.scheme))

\* The step adds the Dublin-Core element d.
ElementAdded(d) ==
    raw_metadata' = MapPush(raw_metadata, d.tag, DublinCore(d.value, d.attributes))

\* C39: creators() is the same whether the facts for an id come before or
\* after the creator element with that id.  A fact added after the element
\* changes the creators with its id as one more turn of the join loop does
\* and no other creator; an element added after the facts resolves to the
\* creator the join loop yields over all the facts recorded for its id:
\* either way the creator is the element with the facts applied in the
\* order of the facts.
C39_RefinesJoinOrderIndependent ==
    [][/\ \A r \in RefinesInputs :
             FactAdded(r) =>
                /\ Len(creators') = Len(creators)
                /\ \A i \in 1..Len(creators) :
                      creators'[i] =
                         IF creators[i].id = Some(r.refines_id)
                         THEN ApplyRefines(creators[i],
                                 <<RefinesBased(r.refines_id, r.property, r.content, r.scheme)>>)
                         ELSE creators[i]
       /\ \A d \in DublinCoreInputs :
             (ElementAdded(d) /\ d.tag = "creator") =>
                LET n == Len(raw_metadata'["creator"])
                    facts == IF "id" \in DOMAIN d.attributes
                                  /\ d.attributes["id"] \in DOMAIN refines_metadata
                             THEN refines_metadata[d.attributes["id"]]
                             ELSE <<>>
                IN  /\ Len(creators') = Len(creators) + 1
                    /\ creators'[n] = ApplyRefines(Unrefined(DublinCore(d.value, d.attributes)), facts)
                    /\ \A i \in 1..Len(creators) :
                          creators'[IF i < n THEN i ELSE i + 1] = creators[i]]_vars

\* Two creator elements with id c1 and the fact display-seq=+2 for c1: the
\* first element was joined with the fact whichever was added first, the
\* second was added after it, and both have display sequence 2.
C39_Witness ==
    /\ metaAdds = 3
    /\ "creator" \in DOMAIN raw_metadata
    /\ Len(raw_metadata["creator"]) = 2
    /\ \A i \in 1..2 : raw_metadata["creator"][i].kind = "DublinCore"
    /\ \A i \in 1..2 : MapGet(raw_metadata["creator"][i].attributes, "id") = Some("c1")
    /\ FactsFor("c1", "display-seq") # <<>>
    /\ Last(FactsFor("c1", "display-seq")).content = S_plus2
    /\ \A i \in 1..2 : creators[i].display_seq = Some(2)


(***************************************************************************)
(* C27: the multi-value queries.                                           *)
(***************************************************************************)
\* The values stored under one tag name, in insertion order.
ValuesUnder(tag) == IF tag \in DOMAIN raw_metadata THEN raw_metadata[tag] ELSE <<>>

\* The number of values stored under the first j - 1 names of tags.
RECURSIVE ValuesBefore(_, _)
ValuesBefore(tags, j) ==
    IF j <= 1 THEN 0 ELSE ValuesBefore(tags, j - 1) + Len(ValuesUnder(tags[j - 1]))

\* result holds one element per value stored under a name of tags: the
\* names in the order of tags and, under one name, the values in insertion
\* order, each passed through extract.
OnePerStoredValue(result, tags, extract(_)) ==
    /\ Len(result) = ValuesBefore(tags, Len(tags) + 1)
    /\ \A j \in 1..Len(tags) : \A i \in 1..Len(ValuesUnder(tags[j])) :
          result[ValuesBefore(tags, j) + i] = extract(ValuesUnder(tags[j])[i])

\* C27: creators, contributors, subjects and identifiers each hold one
\* element per value stored under any candidate name of the field, ordered by
\* the candidate names' order in the configuration and then by insertion
\* order under each name; Dublin-Core elements and metas under the same
\* name are all included.
C27_MultiValueQueries ==
    /\ OnePerStoredValue(creators, creator_tags, extract_creator)
    /\ OnePerStoredValue(contributors, contributor_tags, extract_creator)
    /\ OnePerStoredValue(subjects, subject_tags, extract_content)
    /\ OnePerStoredValue(identifiers, identifier_tags, extract_identifier)

\* A name-based meta "author" was added before a Dublin-Core creator element
\* and a name-based meta "creator": creators lists the two values under
\* "creator" first, in insertion order, and the "author" value last.
C27_Witness ==
    /\ metaAdds = 3
    /\ DOMAIN raw_metadata = {"creator", "author"}
    /\ Len(raw_metadata["creator"]) = 2
    /\ raw_metadata["creator"][1].kind = "DublinCore"
    /\ raw_metadata["creator"][1].value = S_Rowling
    /\ raw_metadata["creator"][2].kind = "NameBased"
    /\ Len(creators) = 3
    /\ creators[1].name = S_Rowling
    /\ creators[2].name = S_Other
    /\ creators[3] = [name |-> S_Other, role |-> None, display_seq |-> None, id |-> None]


(***************************************************************************)
(* The Epub facade (reader.rs): five OnceCell slots and one Mutex around   *)
(* the archive, used by several threads through &self.  Every thread runs  *)
(* accessor calls; a call is a stack of frames, one per function entered,  *)
(* and every step below is one atomic step of one thread.                  *)
(***************************************************************************)
\* The accessor calls made on one facade, over all threads.
MaxCalls == 2

Threads == {"t1", "t2"}

NoThread == "none"

Slots == {"container", "opf", "ncx", "book_info", "paths"}

\* The functions that are a get_or_try_init on a slot, and their slot.
CellFns == {"container", "opf", "opf_with_config", "ncx", "book_info", "paths"}

SlotOf(fn) == IF fn = "opf_with_config" THEN "opf" ELSE fn

\* The functions that lock the archive and read from it.
ReadFns == {"read_file", "read_binary_file", "file_exists", "file_list"}

\* The public accessors a thread calls; has_ncx is called through
\* has_toc_tree, which returns its result.
Accessors == {"container", "opf", "opf_with_config", "ncx", "book_info",
              "toc_tree", "has_toc_tree", "chapter_list", "image_data", "file_list"}

ContainerPath == "META-INF/container.xml"
OpfPath == "OEBPS/content.opf"
NcxPath == "OEBPS/toc.ncx"
ImagePath == "OEBPS/cover.jpg"

\* find_ncx_path, the common paths probed in order (reader.rs:541-546).
common_paths == <<"toc.ncx", "OEBPS/toc.ncx", "content/toc.ncx", "EPUB/toc.ncx">>

\* The archives explored: entry name -> what the entry holds ("unreadable":
\* the entry is there and reading it fails).  The package
\* document either names its navigation document in the spine ("toc"), or
\* not ("notoc"), or does not parse ("malformed").
Archives ==
    { [n \in {ContainerPath, OpfPath, NcxPath, ImagePath} |->
          CASE n = ContainerPath -> "ok" [] n = OpfPath -> "toc"
            [] n = NcxPath -> "ok" [] OTHER -> "image"],
      [n \in {ContainerPath, OpfPath} |->
          IF n = ContainerPath THEN "ok" ELSE "notoc"],
      [n \in {ContainerPath, OpfPath, NcxPath} |->
          CASE n = ContainerPath -> "ok" [] n = OpfPath -> "malformed" [] OTHER -> "ok"],
      [n \in {ContainerPath, OpfPath, NcxPath} |->
          CASE n = ContainerPath -> "ok" [] n = OpfPath -> "toc" [] OTHER -> "malformed"],
      [n \in {ContainerPath, OpfPath} |->
          IF n = ContainerPath THEN "ok" ELSE "toc"],
      [n \in {ContainerPath, OpfPath, NcxPath} |->
          CASE n = ContainerPath -> "ok" [] n = OpfPath -> "toc" [] OTHER -> "unreadable"],
      [n \in {ContainerPath} |-> "malformed"],
      EmptyMap }

\* A value: the identity of the object (0 for plain data), what it is, and
\* the path it carries ("" for none).
Value(obj, kind, path) == [obj |-> obj, kind |-> kind, path |-> path]

NoValue == Value(0, "none", "")

Ok(v) == [ok |-> TRUE, val |-> v]

Err == [ok |-> FALSE, val |-> NoValue]

Frame(fn, pc, arg, idx) == [fn |-> fn, pc |-> pc, arg |-> arg, idx |-> idx]

Top(t) == stack[t][Len(stack[t])]

At(t, fns, pc) == stack[t] # <<>> /\ Top(t).fn \in fns /\ Top(t).pc = pc

\* The stack of t after its top frame moved to pc.
Goto(t, pc) == [stack EXCEPT ![t] = [@ EXCEPT ![Len(@)].pc = pc]]

\* The stack of t after its top frame called callee(arg), to resume at pc.
Calling(t, pc, callee, arg) ==
    [stack EXCEPT ![t] = Append([@ EXCEPT ![Len(@)].pc = pc], Frame(callee, "start", arg, 0))]

\* The stack of t after its top frame returned.
Returned(t) == [stack EXCEPT ![t] = SubSeq(@, 1, Len(@) - 1)]

\* Epub::from_path (reader.rs:95-110): the archive is open, the lock free,
\* every slot empty.
InitFacade ==
    /\ IdleOpen
    /\ IdlePackage
    /\ IdleNcx
    /\ IdlePath
    /\ IdleContainer
    /\ IdleMeta
    /\ archive \in Archives
    /\ archive_lock = NoThread
    /\ cells = [s \in Slots |-> [state |-> "incomplete", value |-> NoValue]]
    /\ stack = [t \in Threads |-> <<>>]
    /\ ret = [t \in Threads |-> Err]
    /\ calls = [t \in Threads |-> 0]
    /\ stored = [s \in Slots |-> {}]
    /\ observed = [s \in Slots |-> {}]
    /\ opf_reads = 0
    /\ opf_parses = 0
    /\ next_obj = 0
    /\ ncx_reads = 0
    /\ returned = [fn \in {"ncx", "toc_tree", "has_toc_tree"} |-> {}]
    /\ ncx_parses = 0
    /\ trees = {}

\* The calls made so far.
CallsMade == calls["t1"] + calls["t2"]

\* A thread with no call in progress calls an accessor.
Call(t, accessor) ==
    /\ stack[t] = <<>>
    /\ CallsMade < MaxCalls
    /\ stack' = [stack EXCEPT ![t] = <<Frame(accessor, "start", "", 0)>>]
    /\ calls' = [calls EXCEPT ![t] = @ + 1]
    /\ ret' = [ret EXCEPT ![t] = Err]
    /\ UNCHANGED <<archive, archive_lock, cells, returned, trees, stored, observed,
                   opf_reads, opf_parses, ncx_parses, next_obj, ncx_reads>>
    /\ UNCHANGED notFacade

\* The top frame of t calls callee(arg) and will resume at pc.
Invoke(t, pc, callee, arg) ==
    /\ stack' = Calling(t, pc, callee, arg)
    /\ ret' = [ret EXCEPT ![t] = Err]
    /\ UNCHANGED <<archive, archive_lock, cells, returned, trees, calls, stored, observed,
                   opf_reads, opf_parses, ncx_parses, next_obj, ncx_reads>>
    /\ UNCHANGED notFacade

\* The top frame of t returns r to its caller.
Return(t, r) ==
    /\ stack' = Returned(t)
    /\ ret' = [ret EXCEPT ![t] = r]
    /\ returned' = IF Top(t).fn \in DOMAIN returned
                   THEN [returned EXCEPT ![Top(t).fn] = @ \cup {[ok |-> r.ok, kind |-> r.val.kind]}]
                   ELSE returned
    /\ trees' = IF Top(t).fn = "toc_tree" /\ r.ok /\ r.val.kind = "tree"
                THEN trees \cup {ret[t].val}
                ELSE trees

\* A lock that never makes its caller wait.
lock_never_waits == TRUE

\* Mutex::lock succeeds only while nobody holds the archive.
lock_available == archive_lock = NoThread

\* A cell whose callers do not wait for a running initializer.
may_initialize_without_waiting(slot) == cells[slot].state # "complete"

\* OnceCell: a caller becomes the initializer only of an incomplete cell;
\* while an initializer is running every other caller waits.
may_initialize(slot) == cells[slot].state = "incomplete"

\* get_or_try_init on a complete cell: the stored value is returned.
get_or_try_init_hit(t) ==
    /\ At(t, CellFns, "start")
    /\ cells[SlotOf(Top(t).fn)].state = "complete"
    /\ Return(t, Ok(cells[SlotOf(Top(t).fn)].value))
    /\ observed' = [observed EXCEPT ![SlotOf(Top(t).fn)] =
                       @ \cup {cells[SlotOf(Top(t).fn)].value}]
    /\ UNCHANGED <<archive, archive_lock, cells, calls, stored,
                   opf_reads, opf_parses, ncx_parses, next_obj, ncx_reads>>
    /\ UNCHANGED notFacade

\* get_or_try_init on an incomplete cell: the caller runs the initializer.
get_or_try_init_run(t) ==
    /\ At(t, CellFns, "start")
    /\ cells[SlotOf(Top(t).fn)].state # "complete"
    /\ may_initialize(SlotOf(Top(t).fn))
    /\ cells' = [cells EXCEPT ![SlotOf(Top(t).fn)].state = "running"]
    /\ stack' = Goto(t, "init")
    /\ UNCHANGED <<archive, archive_lock, ret, returned, trees, calls, stored, observed,
                   opf_reads, opf_parses, ncx_parses, next_obj, ncx_reads>>
    /\ UNCHANGED notFacade

\* A cell that hands out the initializer's value without keeping it.
CellStoreForgetting(t, kind, path) ==
    LET slot == SlotOf(Top(t).fn)
        v == Value(next_obj + 1, kind, path)
    IN  /\ cells' = [cells EXCEPT ![slot] = [state |-> "incomplete", value |-> NoValue]]
        /\ stored' = [stored EXCEPT ![slot] = @ \cup {v}]
        /\ observed' = [observed EXCEPT ![slot] = @ \cup {v}]
        /\ next_obj' = next_obj + 1
        /\ Return(t, Ok(v))
        /\ UNCHANGED <<archive, archive_lock, calls, ncx_reads>>
        /\ UNCHANGED notFacade

\* The initializer returned Ok(value): the cell is filled and the caller gets
\* the stored value.
CellStore(t, kind, path) ==
    LET slot == SlotOf(Top(t).fn)
        v == Value(next_obj + 1, kind, path)
    IN  /\ cells' = [cells EXCEPT ![slot] = [state |-> "complete", value |-> v]]
        /\ stored' = [stored EXCEPT ![slot] = @ \cup {v}]
        /\ observed' = [observed EXCEPT ![slot] = @ \cup {v}]
        /\ next_obj' = next_obj + 1
        /\ Return(t, Ok(v))
        /\ UNCHANGED <<archive, archive_lock, calls, ncx_reads>>
        /\ UNCHANGED notFacade

\* A cell that stays claimed by an initializer that failed.
CellFailKeepingClaim(t) ==
    /\ Return(t, Err)
    /\ UNCHANGED <<archive, archive_lock, cells, calls, stored, observed, next_obj, ncx_reads>>
    /\ UNCHANGED notFacade

\* The initializer returned Err: the cell stays empty and the error is
\* returned to the caller.
CellFail(t) ==
    /\ cells' = [cells EXCEPT ![SlotOf(Top(t).fn)].state =
                    IF @ = "complete" THEN "complete" ELSE "incomplete"]
    /\ Return(t, Err)
    /\ UNCHANGED <<archive, archive_lock, calls, stored, observed, next_obj, ncx_reads>>
    /\ UNCHANGED notFacade

\* read_file / read_binary_file / file_exists / file_list: self.archive.lock()
\* (reader.rs:443, 652, 661, 672).
archive_lock_acquire(t) ==
    /\ At(t, ReadFns, "start")
    /\ lock_available
    /\ archive_lock' = t
    /\ stack' = Goto(t, "reading")
    /\ UNCHANGED <<archive, cells, ret, returned, trees, calls, stored, observed,
                   opf_reads, opf_parses, ncx_parses, next_obj, ncx_reads>>
    /\ UNCHANGED notFacade

\* What a read of the entry yields while the lock is held.
ReadResult(fn, name) ==
    IF fn = "file_list" THEN Ok(Value(0, "names", ""))
    ELSE IF fn = "file_exists"
         THEN Ok(Value(0, IF name \in DOMAIN archive THEN "true" ELSE "false", ""))
    ELSE IF name \in DOMAIN archive /\ archive[name] # "unreadable"
         THEN Ok(Value(0, archive[name], name))
    ELSE Err

\* A guard that outlives the function that took it.
guard_leaked(t) == archive_lock

\* The MutexGuard is a local of the reading function and is dropped when
\* the function returns, on the Ok and on the Err path.
guard_dropped(t) == IF archive_lock = t THEN NoThread ELSE archive_lock

\* by_name / by_index, the read, and the drop of the guard on return
\* (reader.rs:447-452, 653, 664-667, 675-678).
archive_read_and_unlock(t) ==
    /\ At(t, ReadFns, "reading")
    /\ Return(t, ReadResult(Top(t).fn, Top(t).arg))
    /\ archive_lock' = guard_dropped(t)
    /\ opf_reads' = IF /\ Top(t).fn = "read_file"
                       /\ Top(t).arg = OpfPath
                       /\ OpfPath \in DOMAIN archive
                    THEN opf_reads + 1 ELSE opf_reads
    /\ ncx_reads' = IF Top(t).fn = "read_file" /\ Top(t).arg = NcxPath
                    THEN ncx_reads + 1 ELSE ncx_reads
    /\ UNCHANGED <<archive, cells, calls, stored, observed, opf_parses, ncx_parses, next_obj>>
    /\ UNCHANGED notFacade

\* container(), the initializer (reader.rs:117-120).
container_init(t) ==
    /\ At(t, {"container"}, "init")
    /\ Invoke(t, "parse", "read_file", ContainerPath)

container_parse(t) ==
    /\ At(t, {"container"}, "parse")
    /\ IF ret[t].ok /\ ret[t].val.kind = "ok"
       THEN CellStore(t, "container", OpfPath) /\ UNCHANGED <<opf_reads, opf_parses, ncx_parses>>
       ELSE CellFail(t) /\ UNCHANGED <<opf_reads, opf_parses, ncx_parses>>

\* paths(), the initializer (reader.rs:498-519).
paths_init(t) ==
    /\ At(t, {"paths"}, "init")
    /\ Invoke(t, "opf_path", "container", "")

paths_opf_path(t) ==
    /\ At(t, {"paths"}, "opf_path")
    /\ IF ret[t].ok
       THEN Invoke(t, "store", "find_ncx_path", ret[t].val.path)
       ELSE CellFail(t) /\ UNCHANGED <<opf_reads, opf_parses, ncx_parses>>

paths_store(t) ==
    /\ At(t, {"paths"}, "store")
    /\ CellStore(t, "paths", ret[t].val.path)
    /\ UNCHANGED <<opf_reads, opf_parses, ncx_parses>>

\* find_ncx_path (reader.rs:523-555): the package document is read and
\* parsed here, and the result dropped.
find_ncx_path_read(t) ==
    /\ At(t, {"find_ncx_path"}, "start")
    /\ Invoke(t, "parse", "read_file", Top(t).arg)

find_ncx_path_parse(t) ==
    /\ At(t, {"find_ncx_path"}, "parse")
    /\ opf_parses' = IF ret[t].ok /\ ret[t].val.kind \in {"toc", "notoc"}
                     THEN opf_parses + 1 ELSE opf_parses
    /\ IF ret[t].ok /\ ret[t].val.kind = "toc"
       THEN Return(t, Ok(Value(0, "some", NcxPath)))
       ELSE /\ stack' = [stack EXCEPT ![t] =
                            [@ EXCEPT ![Len(@)] = Frame("find_ncx_path", "probe", Top(t).arg, 1)]]
            /\ UNCHANGED <<ret, returned, trees>>
    /\ UNCHANGED <<archive, archive_lock, cells, calls, stored, observed,
                   opf_reads, next_obj, ncx_reads, ncx_parses>>
    /\ UNCHANGED notFacade

find_ncx_path_probe(t) ==
    /\ At(t, {"find_ncx_path"}, "probe")
    /\ IF Top(t).idx <= Len(common_paths)
       THEN /\ stack' = Calling(t, "probed", "file_exists", common_paths[Top(t).idx])
            /\ UNCHANGED <<ret, returned, trees>>
       ELSE Return(t, Ok(Value(0, "none", "")))
    /\ UNCHANGED <<archive, archive_lock, cells, calls, stored, observed,
                   opf_reads, opf_parses, ncx_parses, next_obj, ncx_reads>>
    /\ UNCHANGED notFacade

find_ncx_path_probed(t) ==
    /\ At(t, {"find_ncx_path"}, "probed")
    /\ IF ret[t].val.kind = "true"
       THEN Return(t, Ok(Value(0, "some", common_paths[Top(t).idx])))
       ELSE /\ stack' = [stack EXCEPT ![t] =
                            [@ EXCEPT ![Len(@)] =
                                Frame("find_ncx_path", "probe", Top(t).arg, Top(t).idx + 1)]]
            /\ UNCHANGED <<ret, returned, trees>>
    /\ UNCHANGED <<archive, archive_lock, cells, calls, stored, observed,
                   opf_reads, opf_parses, ncx_parses, next_obj, ncx_reads>>
    /\ UNCHANGED notFacade

\* opf() and opf_with_config(), the initializer (reader.rs:128-132, 143-147).
opf_init(t) ==
    /\ At(t, {"opf", "opf_with_config"}, "init")
    /\ Invoke(t, "read", "paths", "")

opf_read(t) ==
    /\ At(t, {"opf", "opf_with_config"}, "read")
    /\ IF ret[t].ok
       THEN Invoke(t, "parse", "read_file", OpfPath)
       ELSE CellFail(t) /\ UNCHANGED <<opf_reads, opf_parses, ncx_parses>>

opf_parse(t) ==
    /\ At(t, {"opf", "opf_with_config"}, "parse")
    /\ IF ret[t].ok /\ ret[t].val.kind \in {"toc", "notoc"}
       THEN CellStore(t, "opf", "") /\ opf_parses' = opf_parses + 1
       ELSE CellFail(t) /\ UNCHANGED opf_parses
    /\ UNCHANGED <<opf_reads, ncx_parses>>

\* ncx(), the initializer (reader.rs:155-178): only a failure of paths() is
\* an error of the initializer.
ncx_init(t) ==
    /\ At(t, {"ncx"}, "init")
    /\ Invoke(t, "read", "paths", "")

ncx_read(t) ==
    /\ At(t, {"ncx"}, "read")
    /\ IF ~ret[t].ok
       THEN CellFail(t) /\ UNCHANGED <<opf_reads, opf_parses, ncx_parses>>
       ELSE IF ret[t].val.path = ""
            THEN CellStore(t, "no_ncx", "") /\ UNCHANGED <<opf_reads, opf_parses, ncx_parses>>
            ELSE Invoke(t, "parse", "read_file", ret[t].val.path)

\* An initializer that hands a read or parse failure on to its caller.
ncx_parse_propagating(t) ==
    /\ At(t, {"ncx"}, "parse")
    /\ IF ret[t].ok /\ ret[t].val.kind = "ok"
       THEN CellStore(t, "ncx", "")
       ELSE CellFail(t) /\ UNCHANGED next_obj
    /\ ncx_parses' = IF ret[t].ok THEN ncx_parses + 1 ELSE ncx_parses
    /\ UNCHANGED <<opf_reads, opf_parses>>

ncx_parse(t) ==
    /\ At(t, {"ncx"}, "parse")
    /\ IF ret[t].ok /\ ret[t].val.kind = "ok"
       THEN CellStore(t, "ncx", "")
       ELSE CellStore(t, "no_ncx", "")
    /\ ncx_parses' = IF ret[t].ok THEN ncx_parses + 1 ELSE ncx_parses
    /\ UNCHANGED <<opf_reads, opf_parses>>

\* book_info(), the initializer (reader.rs:188-210).
book_info_init(t) ==
    /\ At(t, {"book_info"}, "init")
    /\ Invoke(t, "build", "opf", "")

book_info_build(t) ==
    /\ At(t, {"book_info"}, "build")
    /\ IF ret[t].ok THEN CellStore(t, "book_info", "") ELSE CellFail(t)
    /\ UNCHANGED <<opf_reads, opf_parses, ncx_parses>>

\* A step of an accessor that is not a cell: it returns r.
Finish(t, r) ==
    /\ Return(t, r)
    /\ UNCHANGED <<archive, archive_lock, cells, calls, stored, observed,
                   opf_reads, opf_parses, ncx_parses, next_obj, ncx_reads>>
    /\ UNCHANGED notFacade

\* has_ncx (reader.rs:226-228)
has_ncx(t) ==
    \/ /\ At(t, {"has_ncx"}, "start")
       /\ Invoke(t, "done", "paths", "")
    \/ /\ At(t, {"has_ncx"}, "done")
       /\ Finish(t, IF ret[t].ok
                    THEN Ok(Value(0, IF ret[t].val.path = "" THEN "false" ELSE "true", ""))
                    ELSE Err)

\* toc_tree (reader.rs:259-272): ncx(), then a tree when there is a document.
toc_tree(t) ==
    \/ /\ At(t, {"toc_tree"}, "start")
       /\ Invoke(t, "tree", "ncx", "")
    \/ /\ At(t, {"toc_tree"}, "tree")
       /\ Finish(t, IF ~ret[t].ok THEN Err
                    ELSE IF ret[t].val.kind = "ncx" THEN Ok(Value(0, "tree", ""))
                    ELSE Ok(Value(0, "no_tree", "")))

\* has_toc_tree (reader.rs:278-281): the result of has_ncx.
has_toc_tree(t) ==
    \/ /\ At(t, {"has_toc_tree"}, "start")
       /\ Invoke(t, "done", "has_ncx", "")
    \/ /\ At(t, {"has_toc_tree"}, "done")
       /\ Finish(t, ret[t])

\* chapter_list (reader.rs:287-312), for a spine of one item: opf(), then
\* ncx() for the title of the item.
chapter_list(t) ==
    \/ /\ At(t, {"chapter_list"}, "start")
       /\ Invoke(t, "spine", "opf", "")
    \/ /\ At(t, {"chapter_list"}, "spine")
       /\ IF ret[t].ok THEN Invoke(t, "done", "ncx", "") ELSE Finish(t, Err)
    \/ /\ At(t, {"chapter_list"}, "done")
       /\ Finish(t, Ok(Value(0, "chapters", "")))

\* image_data (reader.rs:427-436): paths(), then read_binary_file.
image_data(t) ==
    \/ /\ At(t, {"image_data"}, "start")
       /\ Invoke(t, "read", "paths", "")
    \/ /\ At(t, {"image_data"}, "read")
       /\ IF ret[t].ok THEN Invoke(t, "done", "read_binary_file", ImagePath) ELSE Finish(t, Err)
    \/ /\ At(t, {"image_data"}, "done")
       /\ Finish(t, ret[t])

NextFacade ==
    \E t \in Threads :
        \/ \E accessor \in Accessors : Call(t, accessor)
        \/ get_or_try_init_hit(t)
        \/ get_or_try_init_run(t)
        \/ archive_lock_acquire(t)
        \/ archive_read_and_unlock(t)
        \/ container_init(t)
        \/ container_parse(t)
        \/ paths_init(t)
        \/ paths_opf_path(t)
        \/ paths_store(t)
        \/ find_ncx_path_read(t)
        \/ find_ncx_path_parse(t)
        \/ find_ncx_path_probe(t)
        \/ find_ncx_path_probed(t)
        \/ opf_init(t)
        \/ opf_read(t)
        \/ opf_parse(t)
        \/ ncx_init(t)
        \/ ncx_read(t)
        \/ ncx_parse(t)
        \/ book_info_init(t)
        \/ book_info_build(t)
        \/ has_ncx(t)
        \/ toc_tree(t)
        \/ has_toc_tree(t)
        \/ chapter_list(t)
        \/ image_data(t)


(***************************************************************************)
(* C6, C7, C8: the cache slots and the archive lock under concurrency.     *)
(***************************************************************************)
\* Thread t is inside the initializer of the slot.
InInitializer(t, slot) ==
    \E i \in 1..Len(stack[t]) :
        /\ stack[t][i].fn \in CellFns
        /\ SlotOf(stack[t][i].fn) = slot
        /\ stack[t][i].pc # "start"

\* Thread t called into the slot and is waiting for a running initializer.
WaitingFor(t, slot) ==
    /\ At(t, CellFns, "start")
    /\ SlotOf(Top(t).fn) = slot
    /\ cells[slot].state = "running"

\* C6: for every slot, in every reachable state of every interleaving: at
\* most one value was ever stored (a successful initializer ran at most
\* once, and the stored value never changed), at most one thread is inside
\* the initializer (the others wait), nobody initializes a filled slot, and
\* every value a caller got back is the stored one.
C6_ComputeOnce ==
    \A slot \in Slots :
        /\ Cardinality(stored[slot]) <= 1
        /\ Cardinality({t \in Threads : InInitializer(t, slot)}) <= 1
        /\ observed[slot] \subseteq stored[slot]
        /\ cells[slot].state = "complete" =>
              /\ stored[slot] = {cells[slot].value}
              /\ \A t \in Threads : ~InInitializer(t, slot)
        /\ cells[slot].state # "complete" => stored[slot] = {}

\* A first caller is blocked on the paths slot while another thread runs its
\* initializer.
C6_Witness ==
    \E t1 \in Threads, t2 \in Threads :
        /\ t1 # t2
        /\ InInitializer(t1, "paths")
        /\ WaitingFor(t2, "paths")

\* C7: on a facade whose package document parses, the package document is
\* read from the archive at most once and parsed at most once, whatever
\* accessors are called.
C7_PackageDocumentParsedOnce ==
    (OpfPath \in DOMAIN archive /\ archive[OpfPath] \in {"toc", "notoc"}) =>
        /\ opf_reads <= 1
        /\ opf_parses <= 1

\* Thread t is reading an entry of the archive.
Reading(t) == At(t, ReadFns, "reading")

\* C8: no two threads read entries of the archive at the same time, and a
\* thread that reads holds the archive lock.
C8_ArchiveMutualExclusion ==
    /\ Cardinality({t \in Threads : Reading(t)}) <= 1
    /\ \A t \in Threads : Reading(t) => archive_lock = t

\* One thread reads an entry while another has called a read and waits for
\* the lock.
C8_Witness ==
    \E t1 \in Threads, t2 \in Threads :
        /\ t1 # t2
        /\ Reading(t1)
        /\ At(t2, ReadFns, "start")


\* The slots whose initializer thread t is running, outermost first.
InitializingSlots(t) ==
    LET frames == SelectSeq(stack[t], LAMBDA f : f.fn \in CellFns /\ f.pc # "start")
    IN  [i \in 1..Len(frames) |-> SlotOf(frames[i].fn)]

\* An initializer calls into at most one other slot (reader.rs:129, 156,
\* 189, 499).
InitializationOrder ==
    {<<"book_info", "opf">>, <<"opf", "paths">>, <<"paths", "container">>,
     <<"ncx", "paths">>}

\* Slots are initialised from inside one another only along
\* InitializationOrder, no thread is twice inside the initializer of a
\* slot, and the thread that holds the archive lock is inside a reading
\* function: it is not at a cache slot.
LockOrder ==
    \A t \in Threads :
        LET slots == InitializingSlots(t)
        IN  /\ \A i \in 1..Len(slots) - 1 : <<slots[i], slots[i + 1]>> \in InitializationOrder
            /\ \A i \in 1..Len(slots), j \in 1..Len(slots) : slots[i] = slots[j] => i = j
            /\ (stack[t] # <<>> /\ Top(t).fn \in CellFns /\ Top(t).pc = "start") =>
                   /\ SlotOf(Top(t).fn) \notin { slots[i] : i \in 1..Len(slots) }
                   /\ archive_lock # t
            /\ archive_lock = t => At(t, ReadFns, "reading")

\* C36: under every interleaving of threads calling accessors of one Epub
\* every call returns (every thread is again and again outside a call), and in every state the slots are initialised in the
\* order book_info, opf, paths, container and ncx, paths, no initializer is
\* inside its own slot again, and the archive lock is held only inside a
\* reading function, never by a thread that waits at a cache slot.
C36_DeadlockFreedom ==
    /\ []LockOrder
    /\ \A t \in Threads : []<>(stack[t] = <<>>)

\* One thread is four initializers deep (book_info, opf, paths, container)
\* and holds the archive lock to read the container, while the other waits
\* at the paths slot.
C36_Witness ==
    \E t1 \in Threads, t2 \in Threads :
        /\ t1 # t2
        /\ InitializingSlots(t1) = <<"book_info", "opf", "paths", "container">>
        /\ archive_lock = t1
        /\ WaitingFor(t2, "paths")

\* Thread t takes the step in which the initializer it runs for the slot
\* ends with an error.
InitializerFails(t, slot) ==
    /\ stack[t] # <<>>
    /\ Top(t).fn \in CellFns
    /\ SlotOf(Top(t).fn) = slot
    /\ Top(t).pc # "start"
    /\ Len(stack'[t]) = Len(stack[t]) - 1
    /\ ~ret'[t].ok

\* C37: the step in which the initializer of the container, paths, package
\* document or book-info slot fails returns the error to the caller, leaves
\* that slot empty and every other slot as it was, stores nothing, and
\* leaves the slot open to the next caller, who runs the initializer again.
C37_FailedInitLeavesCacheUnchanged ==
    [][\A t \in Threads : \A slot \in {"container", "paths", "opf", "book_info"} :
          InitializerFails(t, slot) =>
              /\ ret'[t] = Err
              /\ cells'[slot] = [state |-> "incomplete", value |-> NoValue]
              /\ \A other \in Slots \ {slot} : cells'[other] = cells[other]
              /\ stored' = stored
              /\ may_initialize(slot)']_vars

\* A thread whose has_toc_tree() returned the error of a container that
\* does not parse has called has_toc_tree() again and is inside the
\* initializers of paths and container once more.
C37_Witness ==
    \E t \in Threads :
        /\ calls[t] = 2
        /\ returned["has_toc_tree"] = {[ok |-> FALSE, kind |-> "none"]}
        /\ stack[t] # <<>>
        /\ stack[t][1].fn = "has_toc_tree"
        /\ InitializingSlots(t) = <<"paths", "container">>
        /\ ret[t] = Err
        /\ At(t, {"container"}, "parse")

\* C38 as stated: on every archive has_toc_tree() returns true exactly
\* when toc_tree() returns a tree, also when the navigation document the
\* spine names is missing from the archive or does not parse.
C38_TreeAvailabilityConsistent ==
    \A has \in returned["has_toc_tree"], tree \in returned["toc_tree"] :
        (has.ok /\ tree.ok) => (has.kind = "true" <=> tree.kind = "tree")

\* The container and the package path resolve, and the navigation document
\* is missing from the archive, cannot be read, or does not parse.
NavigationUnusable ==
    /\ ContainerPath \in DOMAIN archive
    /\ archive[ContainerPath] = "ok"
    /\ NcxPath \notin DOMAIN archive \/ archive[NcxPath] \in {"malformed", "unreadable"}

\* C14: on such an archive every ncx() call returns success with an absent
\* value, every toc_tree() call returns success with no tree, the slot
\* caches the absence, and the navigation document is read at most once.
C14_NavigationFailureNonFatal ==
    NavigationUnusable =>
        /\ returned["ncx"] \subseteq {[ok |-> TRUE, kind |-> "no_ncx"]}
        /\ returned["toc_tree"] \subseteq {[ok |-> TRUE, kind |-> "no_tree"]}
        /\ cells["ncx"].state = "complete" => cells["ncx"].value.kind = "no_ncx"
        /\ ncx_reads <= 1

\* C22: every tree that toc_tree() returned on a facade was built from one
\* and the same stored Ncx value (the conversion create_toc_tree_from_ncx is
\* a function of it, so the trees are structurally equal), and the
\* navigation document was read at most once and parsed at most once.
C22_TreeIsPureDerivation ==
    /\ Cardinality(trees) <= 1
    /\ trees \subseteq stored["ncx"]
    /\ ncx_reads <= 1
    /\ ncx_parses <= 1

\* Both threads called toc_tree() and each got a tree.
C22_Witness ==
    /\ \A t \in Threads :
          /\ stack[t] = <<>>
          /\ calls[t] = 1
          /\ ret[t] = Ok(Value(0, "tree", ""))
    /\ Cardinality(trees) = 1
    /\ ncx_reads = 1
    /\ ncx_parses = 1

\* A navigation document that does not parse: both threads have finished a
\* call, ncx() and toc_tree() have both returned, after a single read.
C14_Witness ==
    /\ NcxPath \in DOMAIN archive
    /\ archive[NcxPath] = "malformed"
    /\ returned["ncx"] # {}
    /\ returned["toc_tree"] # {}
    /\ \A t \in Threads : stack[t] = <<>> /\ calls[t] >= 1
    /\ ncx_reads = 1


(***************************************************************************)
(* The package document and the lookups made on it.  Names, ids, hrefs and *)
(* attribute values are character sequences.                               *)
(***************************************************************************)
T_toc_ncx == <<"t", "o", "c", ".", "n", "c", "x">>
T_OEBPS == <<"O", "E", "B", "P", "S">>
T_content == <<"c", "o", "n", "t", "e", "n", "t">>
T_EPUB == <<"E", "P", "U", "B">>
T_nav == <<"n", "a", "v">>
T_ncx == <<"n", "c", "x">>
T_zz == <<"z", "z">>
T_ch1 == <<"c", "h", "1">>
T_ch1_xhtml == <<"c", "h", "1", ".", "x", "h", "t", "m", "l">>
T_xhtml_type == <<"x", "h", "t", "m", "l">>
T_ncx_type == <<"n", "c", "x">>

Slash == <<"/">>

\* find_ncx_path, common_paths (reader.rs:541-546), as text.
CommonNcxPaths ==
    << T_toc_ncx,
       T_OEBPS \o Slash \o T_toc_ncx,
       T_content \o Slash \o T_toc_ncx,
       T_EPUB \o Slash \o T_toc_ncx >>

\* ManifestItem (opf/manifest.rs:6-11); properties is an Option.
ManifestItem(id, href, media_type, properties) ==
    [id |-> id, href |-> href, media_type |-> media_type, properties |-> properties]

\* HashMap::insert
MapInsert(map, key, value) ==
    [k \in DOMAIN map \cup {key} |-> IF k = key THEN value ELSE map[k]]

\* Epub::file_exists (reader.rs:651-657), on the archive of this package.
file_exists(name) == name \in pkgFiles

\* The loop over common_paths (reader.rs:548-552): the names probed so far,
\* and the first one that exists.
RECURSIVE ProbeCommonPaths(_, _)
ProbeCommonPaths(i, probed) ==
    IF i > Len(CommonNcxPaths) THEN [value |-> None, probed |-> probed]
    ELSE IF file_exists(CommonNcxPaths[i])
         THEN [value |-> Some(CommonNcxPaths[i]), probed |-> Append(probed, CommonNcxPaths[i])]
         ELSE ProbeCommonPaths(i + 1, Append(probed, CommonNcxPaths[i]))

\* A resolution that probes the conventional names first.
find_ncx_path_probing_first(opf_directory) ==
    IF ProbeCommonPaths(1, <<>>).value # None THEN ProbeCommonPaths(1, <<>>)
    ELSE IF opfReadable /\ spine_toc # None /\ spine_toc[1] \in DOMAIN manifest
         THEN [value |-> Some(JoinHref(opf_directory, manifest[spine_toc[1]].href)),
               probed |-> ProbeCommonPaths(1, <<>>).probed]
         ELSE ProbeCommonPaths(1, <<>>)

\* Epub::find_ncx_path (reader.rs:523-555): the path, and the names probed.
find_ncx_path(opf_directory) ==
    IF opfReadable /\ spine_toc # None /\ spine_toc[1] \in DOMAIN manifest
    THEN [value |-> Some(JoinHref(opf_directory, manifest[spine_toc[1]].href)),
          probed |-> <<>>]
    ELSE ProbeCommonPaths(1, <<>>)

\* The package documents, directories and archives on which the navigation
\* document is looked for.
NcxManifests ==
    { EmptyMap,
      [k \in {T_ncx} |-> ManifestItem(T_ncx, T_toc_ncx, T_ncx_type, None)],
      [k \in {T_ncx} |-> ManifestItem(T_ncx, T_nav \o Slash \o T_toc_ncx, T_ncx_type, None)],
      [k \in {T_ch1} |-> ManifestItem(T_ch1, T_ch1_xhtml, T_xhtml_type, None)] }

NcxArchiveNames ==
    { CommonNcxPaths[i] : i \in 1..Len(CommonNcxPaths) } \cup { T_nav \o Slash \o T_toc_ncx }

InitFindNcx ==
    /\ IdleOpen
    /\ IdleFacade
    /\ IdleNcx
    /\ IdlePath
    /\ IdleContainer
    /\ IdleMeta
    /\ pkgPc = "resolving"
    /\ opfReadable \in BOOLEAN
    /\ opfDoc = <<>>
    /\ opfLocals = NoLocals
    /\ opfSection = <<>>
    /\ manifest \in NcxManifests
    /\ spine = <<>>
    /\ spine_toc \in {None, Some(T_ncx), Some(T_zz)}
    /\ cover_meta = None
    /\ pkgDir \in {<<>>, T_OEBPS}
    /\ pkgFiles \in SUBSET NcxArchiveNames
    /\ pkgResult = [value |-> None, probed |-> <<>>]

\* paths() calls find_ncx_path(&opf_path, &opf_directory) (reader.rs:512).
FindNcxPath ==
    /\ pkgPc = "resolving"
    /\ pkgResult' = find_ncx_path(pkgDir)
    /\ pkgPc' = "ncx_path"
    /\ UNCHANGED <<opfReadable, opfDoc, opfSection, manifest, spine, spine_toc, cover_meta,
                   pkgDir, pkgFiles>>
    /\ UNCHANGED opfLocals
    /\ UNCHANGED notPackage

NextFindNcx == FindNcxPath

\* The spine's toc attribute names an id of the manifest of a package
\* document that was read.
TocNamesManifestItem ==
    opfReadable /\ spine_toc # None /\ spine_toc[1] \in DOMAIN manifest

\* The positions of the conventional names that exist in the archive.
ExistingCommon == {i \in 1..Len(CommonNcxPaths) : CommonNcxPaths[i] \in pkgFiles}

\* C13: when the spine's toc attribute names a manifest id the path is the
\* package directory joined with the item's href (the bare href for the
\* empty directory) and nothing is probed; otherwise the conventional names
\* are probed in their fixed order up to the first that exists, which is
\* the path; when none exists the path is absent.
C13_NcxPathResolution ==
    pkgPc = "ncx_path" =>
        /\ TocNamesManifestItem =>
              /\ pkgResult.probed = <<>>
              /\ pkgDir = <<>> => pkgResult.value = Some(manifest[spine_toc[1]].href)
              /\ pkgDir # <<>> =>
                    pkgResult.value = Some(pkgDir \o Slash \o manifest[spine_toc[1]].href)
        /\ (~TocNamesManifestItem /\ ExistingCommon # {}) =>
              \E i \in ExistingCommon :
                  /\ \A j \in ExistingCommon : i <= j
                  /\ pkgResult.value = Some(CommonNcxPaths[i])
                  /\ pkgResult.probed = SubSeq(CommonNcxPaths, 1, i)
        /\ (~TocNamesManifestItem /\ ExistingCommon = {}) =>
              /\ pkgResult.value = None
              /\ pkgResult.probed = CommonNcxPaths

\* The example of the claim in the directory OEBPS, in an archive that also
\* has a conventional toc.ncx at its root: the manifest href decides and
\* nothing is probed.
C13_Witness ==
    /\ pkgPc = "ncx_path"
    /\ spine_toc = Some(T_ncx)
    /\ T_ncx \in DOMAIN manifest
    /\ manifest[T_ncx].href = T_toc_ncx
    /\ pkgDir = T_OEBPS
    /\ T_toc_ncx \in pkgFiles
    /\ pkgResult = [value |-> Some(T_OEBPS \o Slash \o T_toc_ncx), probed |-> <<>>]


(***************************************************************************)
(* Cover resolution: Opf::get_cover_path and Epub::cover, on a package     *)
(* document already parsed and a package directory already resolved.       *)
(***************************************************************************)
T_cover_image == <<"c", "o", "v", "e", "r", "-", "i", "m", "a", "g", "e">>
T_nav_cover_image == T_nav \o <<" ">> \o T_cover_image
T_cover_image_x == T_cover_image \o <<"-", "x">>
T_cov == <<"c", "o", "v">>
T_alt == <<"a", "l", "t">>
T_sub == <<"s", "u", "b">>
T_c_png == <<"i", "m", "g", "/", "c", ".", "P", "N", "G">>
T_alt_jpg == <<"a", "l", "t", ".", "j", "p", "g">>
T_sub_gif == <<"s", "u", "b", ".", "g", "i", "f">>
T_lit_png == <<"l", "i", "t", ".", "p", "n", "g">>
T_cover_jpg == <<"c", "o", "v", "e", "r", ".", "j", "p", "g">>
T_image_png == <<"i", "m", "a", "g", "e", "/", "p", "n", "g">>
T_image_jpeg == <<"i", "m", "a", "g", "e", "/", "j", "p", "e", "g">>
T_image_gif == <<"i", "m", "a", "g", "e", "/", "g", "i", "f">>
T_image_slash == <<"i", "m", "a", "g", "e", "/">>

UpperCase == <<"A", "B", "C", "D", "E", "F", "G", "H", "I", "J", "K", "L", "M",
               "N", "O", "P", "Q", "R", "S", "T", "U", "V", "W", "X", "Y", "Z">>
LowerCase == <<"a", "b", "c", "d", "e", "f", "g", "h", "i", "j", "k", "l", "m",
               "n", "o", "p", "q", "r", "s", "t", "u", "v", "w", "x", "y", "z">>

\* str::to_lowercase on the ASCII text of the model.
to_lowercase(s) ==
    [i \in 1..Len(s) |->
        IF \E u \in 1..Len(UpperCase) : UpperCase[u] = s[i]
        THEN LowerCase[CHOOSE u \in 1..Len(UpperCase) : UpperCase[u] = s[i]]
        ELSE s[i]]

\* str::ends_with, str::starts_with, str::contains
ends_with(s, suffix) ==
    Len(suffix) <= Len(s) /\ SubSeq(s, Len(s) - Len(suffix) + 1, Len(s)) = suffix

starts_with(s, prefix) ==
    Len(prefix) <= Len(s) /\ SubSeq(s, 1, Len(prefix)) = prefix

contains(s, pattern) ==
    \E i \in 1..(Len(s) - Len(pattern) + 1) : SubSeq(s, i, i + Len(pattern) - 1) = pattern

\* str::split_whitespace: the maximal runs without a space, as a set.
split_whitespace(s) ==
    { SubSeq(s, i, j) :
        <<i, j>> \in { p \in (1..Len(s)) \X (1..Len(s)) :
                        /\ p[1] <= p[2]
                        /\ \A k \in p[1]..p[2] : s[k] # " "
                        /\ p[1] = 1 \/ s[p[1] - 1] = " "
                        /\ p[2] = Len(s) \/ s[p[2] + 1] = " " } }

\* ManifestItem::has_property (opf/manifest.rs:40-46)
has_property(item, property) ==
    item.properties # None /\ property \in split_whitespace(item.properties[1])

\* ManifestItem::is_cover_image (opf/manifest.rs:54-56)
is_cover_image(item) == has_property(item, T_cover_image)

\* ManifestItem::is_image (opf/manifest.rs:59-61)
is_image(item) == starts_with(item.media_type, T_image_slash)

\* Epub::is_image_file (reader.rs:635-643)
ImageExtensions ==
    { <<".", "j", "p", "g">>, <<".", "j", "p", "e", "g">>, <<".", "p", "n", "g">>,
      <<".", "g", "i", "f">>, <<".", "w", "e", "b", "p">>, <<".", "s", "v", "g">> }

is_image_file(file_path) ==
    \E ext \in ImageExtensions : ends_with(to_lowercase(file_path), ext)

\* Epub::read_binary_file (reader.rs:671-679) succeeds on the entries of the
\* archive.
\* Epub::extract_cover_image (reader.rs:586-611): the archive path read.
extract_cover_image(base_dir, file_path) ==
    IF ~is_image_file(file_path) THEN None
    ELSE IF JoinHref(base_dir, file_path) \in pkgFiles
         THEN Some(JoinHref(base_dir, file_path))
         ELSE None

\* The orders in which a HashMap may hand out its keys.
IterationOrders(map) ==
    { order \in [1..Cardinality(DOMAIN map) -> DOMAIN map] :
        \A i, j \in DOMAIN order : order[i] = order[j] => i = j }

\* The first element of a sequence that satisfies Test, as an Option.
FirstSuch(seq, Test(_)) ==
    IF \E i \in 1..Len(seq) : Test(seq[i])
    THEN Some(seq[CHOOSE i \in 1..Len(seq) :
                     Test(seq[i]) /\ \A j \in 1..(i - 1) : ~Test(seq[j])])
    ELSE None

\* Opf::get_cover_image_path (opf/parser.rs:425-429), the map iterated in order.
get_cover_image_path(order) ==
    LET Flagged(k) == is_cover_image(manifest[k])
        found == FirstSuch(order, Flagged)
    IN  IF found = None THEN None ELSE Some(manifest[found[1]].href)

\* A resolution that consults the metadata before the manifest flags.
get_cover_path_metadata_first(order) ==
    IF cover_meta # None
    THEN IF cover_meta[1] \in DOMAIN manifest
         THEN Some(manifest[cover_meta[1]].href)
         ELSE cover_meta
    ELSE get_cover_image_path(order)

\* Opf::get_cover_path (opf/parser.rs:435-462).  The look-up in other() is
\* not reached with a value: "cover" is a configured tag (config.rs), which
\* other() leaves out.
get_cover_path(order) ==
    IF get_cover_image_path(order) # None THEN get_cover_image_path(order)
    ELSE IF cover_meta # None
         THEN IF cover_meta[1] \in DOMAIN manifest
              THEN Some(manifest[cover_meta[1]].href)
              ELSE cover_meta
         ELSE None

\* Epub::cover, common_cover_names (reader.rs:406-409)
common_cover_names ==
    << <<"c", "o", "v", "e", "r", ".", "j", "p", "g">>,
       <<"c", "o", "v", "e", "r", ".", "j", "p", "e", "g">>,
       <<"c", "o", "v", "e", "r", ".", "p", "n", "g">>,
       <<"c", "o", "v", "e", "r", ".", "g", "i", "f">>,
       <<"C", "o", "v", "e", "r", ".", "j", "p", "g">>,
       <<"C", "o", "v", "e", "r", ".", "j", "p", "e", "g">>,
       <<"C", "o", "v", "e", "r", ".", "p", "n", "g">>,
       <<"C", "o", "v", "e", "r", ".", "g", "i", "f">> >>

\* Epub::cover (reader.rs:383-418): the archive path of the cover returned.
cover(order, opf_directory) ==
    LET by_flag == get_cover_image_path(order)
        Extractable(k) ==
            /\ manifest[k].properties # None
            /\ contains(manifest[k].properties[1], T_cover_image)
            /\ extract_cover_image(opf_directory, manifest[k].href) # None
        by_properties == FirstSuch(order, Extractable)
        Readable(name) == extract_cover_image(opf_directory, name) # None
        by_name == FirstSuch(common_cover_names, Readable)
    IN  IF by_flag # None /\ extract_cover_image(opf_directory, by_flag[1]) # None
        THEN extract_cover_image(opf_directory, by_flag[1])
        ELSE IF by_properties # None
             THEN extract_cover_image(opf_directory, manifest[by_properties[1]].href)
             ELSE IF by_name # None
                  THEN extract_cover_image(opf_directory, by_name[1])
                  ELSE None

\* The package documents and archives on which a cover is looked for.
CoverItemChoices ==
    [ cov : { None,
              Some(ManifestItem(T_cov, T_c_png, T_image_png, Some(T_cover_image))),
              Some(ManifestItem(T_cov, T_c_png, T_image_png, None)) },
      alt : { None, Some(ManifestItem(T_alt, T_alt_jpg, T_image_jpeg, Some(T_nav_cover_image))) },
      sub : { None, Some(ManifestItem(T_sub, T_sub_gif, T_image_gif, Some(T_cover_image_x))) } ]

ManifestOf(choice) ==
    LET items == { choice.cov, choice.alt, choice.sub } \ { None }
    IN  [ k \in { i[1].id : i \in items } |->
            (CHOOSE i \in items : i[1].id = k)[1] ]

CoverManifests == { ManifestOf(choice) : choice \in CoverItemChoices }

CoverFileNames == { T_c_png, T_alt_jpg, T_sub_gif, T_lit_png, T_cover_jpg }

InitCover ==
    /\ IdleOpen
    /\ IdleFacade
    /\ IdleNcx
    /\ IdlePath
    /\ IdleContainer
    /\ IdleMeta
    /\ pkgPc = "parsed"
    /\ opfReadable = TRUE
    /\ opfDoc = <<>>
    /\ opfLocals = NoLocals
    /\ opfSection = <<>>
    /\ manifest \in CoverManifests
    /\ spine = <<>>
    /\ spine_toc = None
    /\ cover_meta \in {None, Some(T_cov), Some(T_lit_png)}
    /\ pkgDir \in {<<>>, T_OEBPS}
    /\ \E names \in SUBSET CoverFileNames :
          pkgFiles = { JoinHref(pkgDir, n) : n \in names }
    /\ pkgResult = [value |-> None, probed |-> <<>>]

\* A call of Opf::get_cover_path on the parsed package document.
GetCoverPath ==
    /\ pkgPc = "parsed"
    /\ \E order \in IterationOrders(manifest) :
          pkgResult' = [value |-> get_cover_path(order), probed |-> <<>>]
    /\ pkgPc' = "cover_path"
    /\ UNCHANGED <<opfReadable, opfDoc, opfSection, manifest, spine, spine_toc, cover_meta,
                   pkgDir, pkgFiles>>
    /\ UNCHANGED opfLocals
    /\ UNCHANGED notPackage

\* A call of Epub::cover; opf() and paths() have succeeded.
Cover ==
    /\ pkgPc = "parsed"
    /\ \E order \in IterationOrders(manifest) :
          pkgResult' = [value |-> cover(order, pkgDir), probed |-> <<>>]
    /\ pkgPc' = "cover"
    /\ UNCHANGED <<opfReadable, opfDoc, opfSection, manifest, spine, spine_toc, cover_meta,
                   pkgDir, pkgFiles>>
    /\ UNCHANGED opfLocals
    /\ UNCHANGED notPackage

NextCover ==
    \/ GetCoverPath
    \/ Cover

\* The manifest items that carry the cover-image token.
FlaggedItems == { k \in DOMAIN manifest : is_cover_image(manifest[k]) }

\* The metadata has a cover entry that names another id or path than item k.
DifferingCoverMetadata(k) ==
    /\ cover_meta # None
    /\ cover_meta[1] # k
    /\ cover_meta[1] # manifest[k].href

C17_MetadataCoverStep ==
    (pkgPc = "cover" /\ FlaggedItems = {} /\ cover_meta # None) =>
        LET target == IF cover_meta[1] \in DOMAIN manifest
                      THEN manifest[cover_meta[1]].href
                      ELSE cover_meta[1]
        IN  extract_cover_image(pkgDir, target) # None =>
                pkgResult.value = Some(JoinHref(pkgDir, target))

\* C18 as stated: Epub::cover returns no cover only if the manifest has no
\* image-typed item with a readable file and the archive has no entry with
\* an image extension.
C18_LastResortSteps ==
    (pkgPc = "cover" /\ pkgResult.value = None) =>
        /\ \A k \in DOMAIN manifest :
              is_image(manifest[k]) => JoinHref(pkgDir, manifest[k].href) \notin pkgFiles
        /\ \A f \in pkgFiles : ~is_image_file(f)


(***************************************************************************)
(* The manifest and spine of Opf::parse_xml_with_config, and the reading-  *)
(* order listings made from them.  opfDoc is the document read so far,     *)
(* opfSection the parser's current_section (None when cleared).            *)
(***************************************************************************)
MaxOpfElements == 3

T_ch2 == <<"c", "h", "2">>
T_ch2_xhtml == <<"c", "h", "2", ".", "x", "h", "t", "m", "l">>
T_no == <<"n", "o">>
T_yes == <<"y", "e", "s">>

\* The attributes of the item elements explored; an absent id, href or
\* media-type is the empty text the parser starts from.
ItemAttrs ==
    { [id |-> T_ch1, href |-> T_ch1_xhtml, media_type |-> T_xhtml_type, properties |-> None],
      [id |-> T_ch2, href |-> T_ch2_xhtml, media_type |-> T_xhtml_type, properties |-> None],
      [id |-> T_ch2, href |-> <<>>, media_type |-> T_xhtml_type, properties |-> None],
      [id |-> <<>>, href |-> T_ch1_xhtml, media_type |-> T_xhtml_type, properties |-> None],
      [id |-> T_ch1, href |-> T_ch1_xhtml, media_type |-> <<>>, properties |-> Some(T_nav)] }

\* The attributes of the itemref elements explored; linear is an Option.
ItemrefAttrs ==
    { [idref |-> T_ch1, linear |-> None],
      [idref |-> T_ch2, linear |-> Some(T_no)],
      [idref |-> T_ch2, linear |-> Some(T_yes)],
      [idref |-> T_zz, linear |-> None],
      [idref |-> <<>>, linear |-> None] }

\* The toc attribute of the spine element.
SpineTocAttrs == {None, Some(T_ncx)}

\* SpineItem (opf/spine.rs:7-12)
SpineItem(idref, linear) == [idref |-> idref, linear |-> linear]

\* A parser that keeps every item element, complete or not.
parse_manifest_item_keeping_incomplete(attrs, map) ==
    MapInsert(map, attrs.id,
              ManifestItem(attrs.id, attrs.href, attrs.media_type, attrs.properties))

\* Opf::parse_manifest_item (opf/parser.rs:341-377)
parse_manifest_item(attrs, map) ==
    IF attrs.id # <<>> /\ attrs.href # <<>> /\ attrs.media_type # <<>>
    THEN MapInsert(map, attrs.id,
                   ManifestItem(attrs.id, attrs.href, attrs.media_type, attrs.properties))
    ELSE map

\* Opf::parse_spine_item (opf/parser.rs:380-409)
parse_spine_item(attrs, items) ==
    IF attrs.idref # <<>>
    THEN Append(items, SpineItem(attrs.idref,
                                 IF attrs.linear = None THEN TRUE ELSE attrs.linear[1] # T_no))
    ELSE items

\* A listing that keeps a spine item without manifest item, under its idref.
get_chapter_paths_keeping_unknown ==
    LET linear == SelectSeq(spine, LAMBDA spine_item : spine_item.linear)
    IN  [i \in 1..Len(linear) |->
            IF linear[i].idref \in DOMAIN manifest
            THEN manifest[linear[i].idref].href
            ELSE linear[i].idref]

\* Opf::get_chapter_paths (opf/parser.rs:468-474)
get_chapter_paths ==
    LET linear == SelectSeq(spine, LAMBDA spine_item : spine_item.linear)
        found == SelectSeq(linear, LAMBDA spine_item : spine_item.idref \in DOMAIN manifest)
    IN  [i \in 1..Len(found) |-> manifest[found[i].idref].href]

\* Epub::chapter_list (reader.rs:287-312): the ChapterInfo records without
\* their titles; order is the 1-based position in the spine.
RECURSIVE ChaptersFrom(_)
ChaptersFrom(order) ==
    IF order > Len(spine) THEN <<>>
    ELSE IF spine[order].idref \in DOMAIN manifest
         THEN <<[id |-> spine[order].idref,
                 path |-> manifest[spine[order].idref].href,
                 order |-> order]>> \o ChaptersFrom(order + 1)
         ELSE ChaptersFrom(order + 1)

chapter_list_of_spine == ChaptersFrom(1)

\* The item and itemref elements read so far.
OpfElements == SelectSeq(opfDoc, LAMBDA e : e.name \in {"item", "itemref"})

InitSpine ==
    /\ IdleOpen
    /\ IdleFacade
    /\ IdleNcx
    /\ IdlePath
    /\ IdleContainer
    /\ IdleMeta
    /\ pkgPc = "parsing"
    /\ opfReadable = TRUE
    /\ opfDoc = <<>>
    /\ opfLocals = NoLocals
    /\ opfSection = None
    /\ manifest = EmptyMap
    /\ spine = <<>>
    /\ spine_toc = None
    /\ cover_meta = None
    /\ pkgDir = <<>>
    /\ pkgFiles = {}
    /\ pkgResult = [value |-> None, probed |-> <<>>]

\* Event::Start "manifest" or "spine" (opf/parser.rs:79-85); each section
\* occurs once in the documents explored.
StartSection(name, toc) ==
    /\ pkgPc = "parsing"
    /\ opfSection = None
    /\ \A i \in 1..Len(opfDoc) : opfDoc[i].name # name
    /\ opfDoc' = Append(opfDoc, [name |-> name, type |-> "start", attrs |-> toc])
    /\ opfSection' = Some(name)
    /\ spine_toc' = IF name = "spine" THEN toc ELSE spine_toc
    /\ UNCHANGED <<pkgPc, opfReadable, manifest, spine, cover_meta, pkgDir, pkgFiles, pkgResult>>
    /\ UNCHANGED opfLocals
    /\ UNCHANGED notPackage

\* Event::Start or Event::Empty "item" (opf/parser.rs:86-88, 110-112)
ItemElement(attrs) ==
    /\ pkgPc = "parsing"
    /\ opfSection # None
    /\ Len(OpfElements) < MaxOpfElements
    /\ opfDoc' = Append(opfDoc, [name |-> "item", type |-> "empty", attrs |-> attrs])
    /\ manifest' = IF opfSection = Some("manifest")
                   THEN parse_manifest_item(attrs, manifest)
                   ELSE manifest
    /\ UNCHANGED <<pkgPc, opfReadable, opfSection, spine, spine_toc, cover_meta, pkgDir,
                   pkgFiles, pkgResult>>
    /\ UNCHANGED opfLocals
    /\ UNCHANGED notPackage

\* Event::Start or Event::Empty "itemref" (opf/parser.rs:89-91, 113-115)
ItemrefElement(attrs) ==
    /\ pkgPc = "parsing"
    /\ opfSection # None
    /\ Len(OpfElements) < MaxOpfElements
    /\ opfDoc' = Append(opfDoc, [name |-> "itemref", type |-> "empty", attrs |-> attrs])
    /\ spine' = IF opfSection = Some("spine")
                THEN parse_spine_item(attrs, spine)
                ELSE spine
    /\ UNCHANGED <<pkgPc, opfReadable, opfSection, manifest, spine_toc, cover_meta, pkgDir,
                   pkgFiles, pkgResult>>
    /\ UNCHANGED opfLocals
    /\ UNCHANGED notPackage

\* Event::End "manifest" or "spine" (opf/parser.rs:124-126)
EndSection ==
    /\ pkgPc = "parsing"
    /\ opfSection # None
    /\ opfDoc' = Append(opfDoc, [name |-> opfSection[1], type |-> "end", attrs |-> None])
    /\ opfSection' = None
    /\ UNCHANGED <<pkgPc, opfReadable, manifest, spine, spine_toc, cover_meta, pkgDir,
                   pkgFiles, pkgResult>>
    /\ UNCHANGED opfLocals
    /\ UNCHANGED notPackage

\* Event::Eof and the Ok(Opf { .. }) returned (opf/parser.rs:158-170)
OpfEof ==
    /\ pkgPc = "parsing"
    /\ opfSection = None
    /\ pkgPc' = "parsed"
    /\ UNCHANGED <<opfReadable, opfDoc, opfSection, manifest, spine, spine_toc, cover_meta,
                   pkgDir, pkgFiles, pkgResult>>
    /\ UNCHANGED opfLocals
    /\ UNCHANGED notPackage

\* A call of Opf::get_chapter_paths on the parsed package document.
GetChapterPaths ==
    /\ pkgPc = "parsed"
    /\ pkgPc' = "chapter_paths"
    /\ pkgResult' = [value |-> get_chapter_paths, probed |-> <<>>]
    /\ UNCHANGED <<opfReadable, opfDoc, opfSection, manifest, spine, spine_toc, cover_meta,
                   pkgDir, pkgFiles>>
    /\ UNCHANGED opfLocals
    /\ UNCHANGED notPackage

\* A call of Epub::chapter_list; opf() has succeeded, and the value is the
\* vector inside the Ok returned.
ChapterList ==
    /\ pkgPc = "parsed"
    /\ pkgPc' = "chapter_list"
    /\ pkgResult' = [value |-> Some(chapter_list_of_spine), probed |-> <<>>]
    /\ UNCHANGED <<opfReadable, opfDoc, opfSection, manifest, spine, spine_toc, cover_meta,
                   pkgDir, pkgFiles>>
    /\ UNCHANGED opfLocals
    /\ UNCHANGED notPackage

NextSpine ==
    \/ StartSection("manifest", None)
    \/ \E toc \in SpineTocAttrs : StartSection("spine", toc)
    \/ \E attrs \in ItemAttrs : ItemElement(attrs)
    \/ \E attrs \in ItemrefAttrs : ItemrefElement(attrs)
    \/ EndSection
    \/ OpfEof
    \/ GetChapterPaths
    \/ ChapterList

\* The positions of the spine whose idref is a manifest key, in order.
KnownPositions(keep_non_linear) ==
    LET kept == { i \in 1..Len(spine) :
                    /\ spine[i].idref \in DOMAIN manifest
                    /\ keep_non_linear \/ spine[i].linear }
        nth[n \in 0..Cardinality(kept)] ==
            IF n = 0 THEN 0 ELSE CHOOSE i \in kept : i > nth[n - 1] /\ \A j \in kept : j > nth[n - 1] => i <= j
    IN  [n \in 1..Cardinality(kept) |-> nth[n]]

\* C19: Opf::get_chapter_paths returns, in spine order, the hrefs of the
\* linear spine items whose idref is a manifest key, and Epub::chapter_list
\* returns Ok with, in spine order, one entry for each spine item whose idref
\* is a manifest key; a spine item without manifest item contributes no
\* entry to either.
C19_UnknownIdrefContributesNothing ==
    /\ pkgPc = "chapter_paths" =>
          LET at == KnownPositions(FALSE)
          IN  /\ Len(pkgResult.value) = Len(at)
              /\ \A n \in 1..Len(at) : pkgResult.value[n] = manifest[spine[at[n]].idref].href
    /\ pkgPc = "chapter_list" =>
          LET at == KnownPositions(TRUE)
          IN  /\ pkgResult.value # None
              /\ Len(pkgResult.value[1]) = Len(at)
              /\ \A n \in 1..Len(at) :
                    /\ pkgResult.value[1][n].id = spine[at[n]].idref
                    /\ pkgResult.value[1][n].path = manifest[spine[at[n]].idref].href
                    /\ pkgResult.value[1][n].order = at[n]

\* The listing of a spine zz, ch1 over a manifest with ch1 alone has the
\* single entry of ch1.
C19_Witness ==
    /\ pkgPc = "chapter_paths"
    /\ DOMAIN manifest = {T_ch1}
    /\ spine = <<SpineItem(T_zz, TRUE), SpineItem(T_ch1, TRUE)>>
    /\ pkgResult.value = <<T_ch1_xhtml>>

\* The event at position i of the document lies inside the manifest element.
InManifestSection(i) ==
    \E j \in 1..(i - 1) :
        /\ opfDoc[j].name = "manifest" /\ opfDoc[j].type = "start"
        /\ \A k \in (j + 1)..(i - 1) : opfDoc[k].type # "end"

\* The item elements of the manifest element that lack an id, href or
\* media-type.
IncompleteItems ==
    { i \in 1..Len(opfDoc) :
        /\ opfDoc[i].name = "item"
        /\ InManifestSection(i)
        /\ <<>> \in {opfDoc[i].attrs.id, opfDoc[i].attrs.href, opfDoc[i].attrs.media_type} }

\* C26: after the parse every manifest entry has a non-empty id, href and
\* media type, is stored under its own id and is an item element of the
\* manifest element that has all three; an item element lacking one of them
\* is no entry, and the parse still returns the package document.
C26_ManifestEntriesComplete ==
    pkgPc = "parsed" =>
        \A k \in DOMAIN manifest :
            /\ manifest[k].id = k
            /\ manifest[k].id # <<>> /\ manifest[k].href # <<>> /\ manifest[k].media_type # <<>>
            /\ \E i \in 1..Len(opfDoc) :
                  /\ opfDoc[i].name = "item"
                  /\ InManifestSection(i)
                  /\ i \notin IncompleteItems
                  /\ opfDoc[i].attrs = manifest[k]

\* A parsed document whose manifest element has a complete item ch1 and an
\* item ch2 without href: ch1 is the only entry.
C26_Witness ==
    /\ pkgPc = "parsed"
    /\ DOMAIN manifest = {T_ch1}
    /\ \E i \in IncompleteItems : opfDoc[i].attrs.id = T_ch2

\* C20 as stated: after Opf::parse_xml returns, every SpineItem's idref is
\* a key of the manifest.
C20_SpineIdrefsAreManifestKeys ==
    pkgPc = "parsed" => \A i \in 1..Len(spine) : spine[i].idref \in DOMAIN manifest


(***************************************************************************)
(* Opening an archive: Epub::from_path and Epub::validate_epub_format.     *)
(* openInput is the file at the path: whether it is a zip archive, and its *)
(* mimetype entry (None without one; an entry holds text, or bytes that    *)
(* are not UTF-8).                                                         *)
(***************************************************************************)
T_epub_zip == <<"a", "p", "p", "l", "i", "c", "a", "t", "i", "o", "n", "/",
                "e", "p", "u", "b", "+", "z", "i", "p">>
T_plain_zip == <<"a", "p", "p", "l", "i", "c", "a", "t", "i", "o", "n", "/", "z", "i", "p">>

\* char::is_whitespace on the characters of the model.
WhiteSpace == {" ", "\t", "\n", "\r"}

\* str::trim
RECURSIVE trim(_)
trim(s) ==
    IF s = <<>> THEN s
    ELSE IF Head(s) \in WhiteSpace THEN trim(Tail(s))
    ELSE IF s[Len(s)] \in WhiteSpace THEN trim(SubSeq(s, 1, Len(s) - 1))
    ELSE s

\* A validation that lets an archive without mimetype entry pass.
validate_epub_format_lenient(entry) ==
    IF entry = None THEN "Ok"
    ELSE IF ~entry[1].utf8 THEN "Io"
    ELSE IF trim(entry[1].text) # T_epub_zip THEN "InvalidMimetype"
    ELSE "Ok"

\* Epub::validate_epub_format (reader.rs:682-704); read_to_string fails on
\* bytes that are not UTF-8, and the ? returns that error.
validate_epub_format(entry) ==
    IF entry = None THEN "MissingMimetype"
    ELSE IF ~entry[1].utf8 THEN "Io"
    ELSE IF trim(entry[1].text) # T_epub_zip THEN "InvalidMimetype"
    ELSE "Ok"

\* The files explored.
MimetypeTexts ==
    { pre \o core \o post :
        pre \in { <<>>, <<" ">>, <<"\r", "\n">> },
        core \in { T_epub_zip, T_plain_zip, <<>>, T_epub_zip \o <<" ", "x">>,
                   <<"A">> \o Tail(T_epub_zip),
                   SubSeq(T_epub_zip, 1, 12) \o <<" ">> \o SubSeq(T_epub_zip, 13, 20) },
        post \in { <<>>, <<"\n">>, <<" ", "\t">> } }

OpenInputs ==
    { [zip |-> FALSE, mimetype |-> None] }
    \cup { [zip |-> TRUE, mimetype |-> None],
           [zip |-> TRUE, mimetype |-> Some([utf8 |-> FALSE, text |-> <<>>])] }
    \cup { [zip |-> TRUE, mimetype |-> Some([utf8 |-> TRUE, text |-> t])] : t \in MimetypeTexts }

InitOpen ==
    /\ IdleFacade
    /\ IdlePackage
    /\ IdleNcx
    /\ IdlePath
    /\ IdleContainer
    /\ IdleMeta
    /\ openPc = "calling"
    /\ openInput \in OpenInputs
    /\ openResult = "none"

\* Epub::from_path (reader.rs:95-110) failing: the ? on File::open,
\* ZipArchive::new or validate_epub_format returns the error and no Epub.
from_path_err ==
    /\ openPc = "calling"
    /\ ~openInput.zip \/ validate_epub_format(openInput.mimetype) # "Ok"
    /\ openResult' = IF ~openInput.zip THEN "Zip"
                     ELSE validate_epub_format(openInput.mimetype)
    /\ openPc' = "returned"
    /\ UNCHANGED openInput
    /\ UNCHANGED facadeVars
    /\ UNCHANGED notFacadeNorOpen

\* Epub::from_path (reader.rs:95-110) succeeding: the Epub with its five
\* OnceCell::new() slots.
from_path_ok ==
    /\ openPc = "calling"
    /\ openInput.zip
    /\ validate_epub_format(openInput.mimetype) = "Ok"
    /\ openResult' = "Ok"
    /\ openPc' = "returned"
    /\ cells' = [s \in Slots |-> [state |-> "incomplete", value |-> NoValue]]
    /\ stored' = [s \in Slots |-> {}]
    /\ archive_lock' = NoThread
    /\ UNCHANGED openInput
    /\ UNCHANGED <<archive, stack, ret, calls, observed, opf_reads, opf_parses, ncx_parses, next_obj,
                   ncx_reads, returned, trees>>
    /\ UNCHANGED notFacadeNorOpen

NextOpen ==
    \/ from_path_err
    \/ from_path_ok

\* t is s without its leading and trailing white space.
IsTrimmed(t, s) ==
    /\ t = <<>> \/ (t[1] \notin WhiteSpace /\ t[Len(t)] \notin WhiteSpace)
    /\ \E i \in 0..(Len(s) - Len(t)) :
          /\ SubSeq(s, i + 1, i + Len(t)) = t
          /\ \A k \in (1..i) \cup ((i + Len(t) + 1)..Len(s)) : s[k] \in WhiteSpace

\* C21: from_path on a zip archive fails with MissingMimetype when there is
\* no mimetype entry and with InvalidMimetype when the entry's text, trimmed,
\* is not application/epub+zip; whenever it fails there is no facade and no
\* slot; it succeeds on an entry whose trimmed text is application/epub+zip,
\* and then every slot is empty.
C21_MimetypeValidationFatal ==
    (openPc = "returned" /\ openInput.zip) =>
        /\ openInput.mimetype = None => openResult = "MissingMimetype"
        /\ (openInput.mimetype # None /\ openInput.mimetype[1].utf8) =>
              (openResult = "Ok" <=> IsTrimmed(T_epub_zip, openInput.mimetype[1].text))
        /\ (openInput.mimetype # None /\ openInput.mimetype[1].utf8 /\ openResult # "Ok") =>
              openResult = "InvalidMimetype"
        /\ openResult # "Ok" => cells = EmptyMap /\ stored = EmptyMap
        /\ openResult = "Ok" =>
              /\ DOMAIN cells = Slots
              /\ \A s \in Slots : cells[s].state = "incomplete" /\ stored[s] = {}

\* An archive without mimetype entry was refused.
C21_Witness ==
    /\ openPc = "returned"
    /\ openInput = [zip |-> TRUE, mimetype |-> None]
    /\ openResult = "MissingMimetype"
    /\ cells = EmptyMap


(***************************************************************************)
(* The metadata section of Opf::parse_xml_with_config.  The reader is      *)
(* configured with expand_empty_elements (opf/parser.rs:53): an empty      *)
(* element arrives as a Start event followed at once by its End event, and *)
(* no Event::Empty is delivered.  opfLocals holds the parser's locals      *)
(* text_content, current_attributes and current_meta_property, and the     *)
(* names of the elements open inside <metadata>.  Tag names, attribute     *)
(* names and values, and texts are character sequences here.               *)
(***************************************************************************)
MaxMetaElements == 2
MaxMetaTexts == 2

T_meta == <<"m", "e", "t", "a">>
T_title == <<"t", "i", "t", "l", "e">>
T_creator == <<"c", "r", "e", "a", "t", "o", "r">>
T_b == <<"b">>
T_id == <<"i", "d">>
T_c1 == <<"c", "1">>
T_role == <<"r", "o", "l", "e">>
T_rendition == <<"r", "e", "n", "d", "i", "t", "i", "o", "n">>
T_marc_relators == <<"m", "a", "r", "c", ":", "r", "e", "l", "a", "t", "o", "r", "s">>
T_dcterms_modified ==
    <<"d", "c", "t", "e", "r", "m", "s", ":", "m", "o", "d", "i", "f", "i", "e", "d">>
T_author == <<"a", "u", "t", "h", "o", "r">>
T_contributor == <<"c", "o", "n", "t", "r", "i", "b", "u", "t", "o", "r">>
T_language == <<"l", "a", "n", "g", "u", "a", "g", "e">>
T_identifier == <<"i", "d", "e", "n", "t", "i", "f", "i", "e", "r">>
T_publisher == <<"p", "u", "b", "l", "i", "s", "h", "e", "r">>
T_date == <<"d", "a", "t", "e">>
T_description == <<"d", "e", "s", "c", "r", "i", "p", "t", "i", "o", "n">>
T_subject == <<"s", "u", "b", "j", "e", "c", "t">>
T_rights == <<"r", "i", "g", "h", "t", "s">>
T_cover == <<"c", "o", "v", "e", "r">>
T_refines_colon == <<"r", "e", "f", "i", "n", "e", "s", ":">>
T_refines_dash == <<"r", "e", "f", "i", "n", "e", "s", "-">>
T_A == <<"A">>
T_B == <<"B">>

PropertyBased(content) == [kind |-> "PropertyBased", content |-> content]

\* str::split(c): the parts between the occurrences of c.
RECURSIVE split(_, _)
split(s, c) ==
    IF \E i \in 1..Len(s) : s[i] = c
    THEN LET at == CHOOSE i \in 1..Len(s) : s[i] = c /\ \A j \in 1..(i - 1) : s[j] # c
         IN  <<SubSeq(s, 1, at - 1)>> \o split(SubSeq(s, at + 1, Len(s)), c)
    ELSE <<s>>

\* The attributes of a meta element read by handle_meta_start_tag; an absent
\* name, content, property or refines is the empty text the function starts
\* from, scheme is an Option.
MetaAttrs(name, content, property, refines, scheme) ==
    [name |-> name, content |-> content, property |-> property, refines |-> refines,
     scheme |-> scheme]

\* The state of the parse: the two maps of the Metadata and the locals.
ParseState(raw, refines, text_content, attributes, meta_property) ==
    [raw_metadata |-> raw, refines_metadata |-> refines, text_content |-> text_content,
     current_attributes |-> attributes, current_meta_property |-> meta_property]

\* Opf::handle_meta_start_tag (opf/parser.rs:196-245) and the
\* text_content.clear() after it (opf/parser.rs:93-95).
handle_meta_start_tag(attrs, st) ==
    LET refines == IF attrs.refines # <<>> /\ attrs.refines[1] = "#"
                   THEN Tail(attrs.refines) ELSE attrs.refines
        raw == IF attrs.name # <<>> /\ attrs.content # <<>>
               THEN MapPush(st.raw_metadata, attrs.name, NameBased(attrs.content))
               ELSE st.raw_metadata
        property ==
            IF refines # <<>> /\ attrs.property # <<>>
            THEN T_refines_colon \o refines \o <<":">> \o attrs.property \o <<":">>
                 \o (IF attrs.scheme = None THEN <<>> ELSE attrs.scheme[1])
            ELSE attrs.property
    IN  ParseState(raw, st.refines_metadata, <<>>, st.current_attributes, property)

\* Opf::handle_metadata_element (opf/parser.rs:303-318) and the
\* text_content.clear() after it (opf/parser.rs:97-100).
handle_metadata_element(attrs, st) ==
    ParseState(st.raw_metadata, st.refines_metadata, <<>>, attrs, st.current_meta_property)

\* Event::Text (opf/parser.rs:155-157)
push_text(text, st) == [st EXCEPT !.text_content = @ \o text]

\* Event::End "meta" with a current_meta_property (opf/parser.rs:127-148),
\* with Metadata::add_meta_refines_based and add_meta_property_based.
meta_end(st) ==
    LET parts == split(st.current_meta_property, ":")
        scheme == IF Len(parts) > 3 /\ parts[4] # <<>> THEN Some(parts[4]) ELSE None
    IN  IF starts_with(st.current_meta_property, T_refines_colon)
        THEN IF Len(parts) >= 3
             THEN [st EXCEPT
                     !.raw_metadata = MapPush(@, T_refines_dash \o parts[2],
                         RefinesBased(parts[2], parts[3], trim(st.text_content), scheme)),
                     !.refines_metadata = MapPush(@, parts[2],
                         RefinesBased(parts[2], parts[3], trim(st.text_content), scheme)),
                     !.current_meta_property = <<>>]
             ELSE [st EXCEPT !.current_meta_property = <<>>]
        ELSE [st EXCEPT
                !.raw_metadata = MapPush(@, st.current_meta_property,
                                         PropertyBased(trim(st.text_content))),
                !.current_meta_property = <<>>]

\* Opf::process_metadata_text (opf/parser.rs:324-338)
process_metadata_text(element_name, st) ==
    IF trim(st.text_content) = <<>> THEN st
    ELSE [st EXCEPT !.raw_metadata =
            MapPush(@, element_name, DublinCore(trim(st.text_content), st.current_attributes))]

\* Event::Start inside the metadata section (opf/parser.rs:93-101)
on_start(name, attrs, st) ==
    IF name = T_meta THEN handle_meta_start_tag(attrs, st)
    ELSE handle_metadata_element(attrs, st)

\* Event::End inside the metadata section (opf/parser.rs:127-152)
on_end(name, st) ==
    IF name = T_meta /\ st.current_meta_property # <<>> THEN meta_end(st)
    ELSE process_metadata_text(name, st)

\* The candidate names of every field of MetadataTagConfigs::default_config
\* (opf/config.rs:130-180), as Metadata::other collects them
\* (metadata.rs:248-261).
known_tags ==
    { T_title, T_creator, T_author, T_contributor, T_language, T_identifier, T_publisher,
      T_date, T_description, T_subject, T_rights, T_cover, T_dcterms_modified }

\* Metadata::other (metadata.rs:246-273) of a raw map.
other(raw) ==
    LET tags == { tag \in DOMAIN raw :
                    tag \notin known_tags /\ ~starts_with(tag, T_refines_dash) }
    IN  [tag \in tags |-> extract_content(raw[tag][1])]

\* The parse state held in the variables.
CurrentParseState ==
    ParseState(raw_metadata, refines_metadata, opfLocals.text_content,
               opfLocals.current_attributes, opfLocals.current_meta_property)

\* The elements explored inside <metadata>.
MetaElementAttrs ==
    { MetaAttrs(<<>>, T_A, T_rendition, <<>>, None),
      MetaAttrs(<<>>, <<>>, T_rendition, <<>>, None),
      MetaAttrs(<<>>, <<>>, T_role, <<"#">> \o T_c1, Some(T_marc_relators)),
      MetaAttrs(<<>>, <<>>, T_dcterms_modified, <<"#">> \o T_c1, None),
      MetaAttrs(<<>>, <<>>, T_role, T_c1, None),
      MetaAttrs(T_cov, T_B, <<>>, <<>>, None),
      MetaAttrs(T_refines_dash \o T_c1, T_B, <<>>, <<>>, None) }

OtherElements ==
    { [name |-> T_title, attrs |-> EmptyMap],
      [name |-> T_creator, attrs |-> [k \in {T_id} |-> T_c1]],
      [name |-> T_b, attrs |-> [k \in {T_role} |-> T_A]] }

MetadataElements ==
    { [name |-> T_meta, attrs |-> a] : a \in MetaElementAttrs } \cup OtherElements

MetadataTexts == { T_A, T_B }

\* The parser at the Start event of <metadata> (opf/parser.rs:56-65, 76-78).
InitOpfMeta ==
    /\ IdleOpen
    /\ IdleFacade
    /\ IdleNcx
    /\ IdlePath
    /\ IdleContainer
    /\ metaPc = "parsing"
    /\ raw_metadata = EmptyMap
    /\ refines_metadata = EmptyMap
    /\ metaAdds = 0
    /\ pkgPc = "parsing"
    /\ opfReadable = TRUE
    /\ opfDoc = <<>>
    /\ opfLocals = NoLocals
    /\ opfSection = Some("metadata")
    /\ manifest = EmptyMap
    /\ spine = <<>>
    /\ spine_toc = None
    /\ cover_meta = None
    /\ pkgDir = <<>>
    /\ pkgFiles = {}
    /\ pkgResult = [value |-> None, probed |-> <<>>]

\* The variables a step of the metadata section leaves alone.
notOpfMeta == <<metaPc, metaAdds, pkgPc, opfReadable, manifest, spine, spine_toc, cover_meta,
                pkgDir, pkgFiles, pkgResult, ncxVars, pathVars, containerVars, facadeVars,
                openVars, pageVars>>

\* The parse state st and the open elements become the variables.
Becomes(st, open) ==
    /\ raw_metadata' = st.raw_metadata
    /\ refines_metadata' = st.refines_metadata
    /\ opfLocals' = [text_content |-> st.text_content,
                     current_attributes |-> st.current_attributes,
                     current_meta_property |-> st.current_meta_property,
                     open |-> open]

StartedElements == SelectSeq(opfDoc, LAMBDA e : e.type \in {"start", "empty"})

\* Event::Start of an element with content.  In the documents explored a
\* meta holds text only and elements nest at most two deep.
MetadataStart(el) ==
    /\ pkgPc = "parsing"
    /\ opfSection = Some("metadata")
    /\ Len(StartedElements) < MaxMetaElements
    /\ opfLocals.open = <<>> \/ (Len(opfLocals.open) = 1 /\ Last(opfLocals.open) # T_meta)
    /\ opfDoc' = Append(opfDoc, [type |-> "start", name |-> el.name, attrs |-> el.attrs,
                                 depth |-> Len(opfLocals.open) + 1])
    /\ Becomes(on_start(el.name, el.attrs, CurrentParseState), Append(opfLocals.open, el.name))
    /\ UNCHANGED opfSection
    /\ UNCHANGED notOpfMeta

\* An empty element: its Start event and its End event.
MetadataEmpty(el) ==
    /\ pkgPc = "parsing"
    /\ opfSection = Some("metadata")
    /\ Len(StartedElements) < MaxMetaElements
    /\ opfLocals.open = <<>> \/ (Len(opfLocals.open) = 1 /\ Last(opfLocals.open) # T_meta)
    /\ opfDoc' = Append(opfDoc, [type |-> "empty", name |-> el.name, attrs |-> el.attrs,
                                 depth |-> Len(opfLocals.open) + 1])
    /\ Becomes(on_end(el.name, on_start(el.name, el.attrs, CurrentParseState)), opfLocals.open)
    /\ UNCHANGED opfSection
    /\ UNCHANGED notOpfMeta

\* Event::Text inside an element; the reader trims texts and skips empty ones.
MetadataText(text) ==
    /\ pkgPc = "parsing"
    /\ opfSection = Some("metadata")
    /\ opfLocals.open # <<>>
    /\ opfDoc # <<>> /\ opfDoc[Len(opfDoc)].type # "text"
    /\ Len(SelectSeq(opfDoc, LAMBDA e : e.type = "text")) < MaxMetaTexts
    /\ opfDoc' = Append(opfDoc, [type |-> "text", name |-> <<>>, attrs |-> text,
                                 depth |-> Len(opfLocals.open)])
    /\ Becomes(push_text(text, CurrentParseState), opfLocals.open)
    /\ UNCHANGED opfSection
    /\ UNCHANGED notOpfMeta

\* Event::End of the innermost open element.
MetadataEnd ==
    /\ pkgPc = "parsing"
    /\ opfSection = Some("metadata")
    /\ opfLocals.open # <<>>
    /\ opfDoc[Len(opfDoc)].type # "start"
    /\ opfDoc' = Append(opfDoc, [type |-> "end", name |-> Last(opfLocals.open), attrs |-> <<>>,
                                 depth |-> Len(opfLocals.open)])
    /\ Becomes(on_end(Last(opfLocals.open), CurrentParseState),
               SubSeq(opfLocals.open, 1, Len(opfLocals.open) - 1))
    /\ UNCHANGED opfSection
    /\ UNCHANGED notOpfMeta

\* Event::End "metadata" (opf/parser.rs:124-126); the rest of the document
\* adds nothing to the Metadata.
MetadataSectionEnd ==
    /\ pkgPc = "parsing"
    /\ opfSection = Some("metadata")
    /\ opfLocals.open = <<>>
    /\ opfSection' = None
    /\ pkgPc' = "metadata_parsed"
    /\ UNCHANGED <<opfDoc, opfLocals, raw_metadata, refines_metadata>>
    /\ UNCHANGED <<metaPc, metaAdds, opfReadable, manifest, spine, spine_toc, cover_meta, pkgDir,
                   pkgFiles, pkgResult, ncxVars, pathVars, containerVars, facadeVars, openVars,
                   pageVars>>

NextOpfMeta ==
    \/ \E el \in MetadataElements : MetadataStart(el)
    \/ \E el \in MetadataElements : MetadataEmpty(el)
    \/ \E text \in MetadataTexts : MetadataText(text)
    \/ MetadataEnd
    \/ MetadataSectionEnd


\* The position of the End event of the element started at position i of
\* the document (i itself for an empty element).
EndOf(i) ==
    IF opfDoc[i].type = "empty" THEN i
    ELSE CHOOSE j \in (i + 1)..Len(opfDoc) :
            /\ opfDoc[j].type = "end"
            /\ opfDoc[j].depth = opfDoc[i].depth
            /\ \A k \in (i + 1)..(j - 1) :
                  ~(opfDoc[k].type = "end" /\ opfDoc[k].depth = opfDoc[i].depth)

\* The text inside the element started at position i, in document order.
RECURSIVE TextBetween(_, _)
TextBetween(from, to) ==
    IF from > to THEN <<>>
    ELSE (IF opfDoc[from].type = "text" THEN opfDoc[from].attrs ELSE <<>>)
         \o TextBetween(from + 1, to)

ElementText(i) == TextBetween(i + 1, EndOf(i) - 1)

\* The positions of the meta elements that are property annotations, and
\* of those that are refines annotations.
PropertyMetas ==
    { i \in 1..Len(opfDoc) :
        /\ opfDoc[i].type \in {"start", "empty"}
        /\ opfDoc[i].name = T_meta
        /\ opfDoc[i].attrs.property # <<>>
        /\ opfDoc[i].attrs.refines = <<>> }

RefinesMetas ==
    { i \in 1..Len(opfDoc) :
        /\ opfDoc[i].type \in {"start", "empty"}
        /\ opfDoc[i].name = T_meta
        /\ opfDoc[i].attrs.property # <<>>
        /\ opfDoc[i].attrs.refines \notin {<<>>, <<"#">>} }

\* C23 as stated: a meta with a property attribute P and no refines
\* attribute is recorded under P as a MetaPropertyBased value whose content
\* is the content attribute C when the element has no text, and the trimmed
\* text when it has text.
C23_PropertyAnnotationContent ==
    pkgPc = "metadata_parsed" =>
        \A i \in PropertyMetas :
            LET P == opfDoc[i].attrs.property
                expected == IF ElementText(i) = <<>> THEN opfDoc[i].attrs.content
                            ELSE ElementText(i)
            IN  /\ P \in DOMAIN raw_metadata
                /\ \E k \in 1..Len(raw_metadata[P]) :
                      raw_metadata[P][k] = PropertyBased(expected)

\* The refines id, property and scheme written on the meta at position i.
WrittenRefines(i) ==
    [refines_id |-> IF opfDoc[i].attrs.refines[1] = "#"
                    THEN Tail(opfDoc[i].attrs.refines) ELSE opfDoc[i].attrs.refines,
     property |-> opfDoc[i].attrs.property,
     scheme |-> opfDoc[i].attrs.scheme]

\* The refines facts recorded with the given id, property and scheme.
RecordedRefines(w) ==
    IF w.refines_id \in DOMAIN refines_metadata
    THEN SelectSeq(refines_metadata[w.refines_id],
                   LAMBDA f : /\ f.refines_id = w.refines_id
                              /\ f.property = w.property
                              /\ f.scheme = w.scheme)
    ELSE <<>>

\* C24 as stated: every meta with refines and property attributes has
\* exactly one MetaRefinesBased fact, with the refines id (leading # off),
\* the property and the scheme as written.
C24_RefinesFactsAsWritten ==
    pkgPc = "metadata_parsed" =>
        \A i \in RefinesMetas :
            Len(RecordedRefines(WrittenRefines(i))) =
                Cardinality({ j \in RefinesMetas : WrittenRefines(j) = WrittenRefines(i) })

\* C25 as stated: every DublinCore value recorded under a name N holds the
\* non-empty trimmed text of a child element of <metadata> named N, with
\* the attributes of that element.
C25_DublinCoreFromOneElement ==
    pkgPc = "metadata_parsed" =>
        \A N \in DOMAIN raw_metadata :
            \A k \in 1..Len(raw_metadata[N]) :
                raw_metadata[N][k].kind = "DublinCore" =>
                    /\ raw_metadata[N][k].value # <<>>
                    /\ \E i \in 1..Len(opfDoc) :
                          /\ opfDoc[i].type \in {"start", "empty"}
                          /\ opfDoc[i].depth = 1
                          /\ opfDoc[i].name = N
                          /\ opfDoc[i].attrs = raw_metadata[N][k].attributes
                          /\ trim(ElementText(i)) = raw_metadata[N][k].value

\* The raw tag names that hold an annotation of the document: a Dublin-Core
\* element, a name-based meta or a property meta, and not only the copies of
\* refines facts that add_meta_refines_based keeps in the raw map.
AnnotationTags ==
    { tag \in DOMAIN raw_metadata :
        \E k \in 1..Len(raw_metadata[tag]) : raw_metadata[tag][k].kind # "RefinesBased" }

\* C28 as stated: other() holds exactly the raw tag names that are no
\* candidate name of a configured field and no refines bookkeeping key, each
\* with the content of its first stored value; every annotation whose tag
\* name is not configured is in it, whatever its name.
C28_OtherHoldsEveryUnconfiguredAnnotation ==
    pkgPc = "metadata_parsed" =>
        /\ DOMAIN other(raw_metadata) = AnnotationTags \ known_tags
        /\ \A tag \in DOMAIN other(raw_metadata) :
              other(raw_metadata)[tag] = extract_content(raw_metadata[tag][1])


(***************************************************************************)
(* Ncx::parse_xml on the ncx root element and the page list                *)
(* (ncx/parser.rs:39-240).  The document is read event by event; the       *)
(* reader expands empty elements into a Start and an End event             *)
(* (parser.rs:42).                                                         *)
(***************************************************************************)
MaxPageElements == 5

T_version == <<"v", "e", "r", "s", "i", "o", "n">>
T_xml_lang == <<"x", "m", "l", ":", "l", "a", "n", "g">>
T_2005_1 == <<"2", "0", "0", "5", "-", "1">>
T_en == <<"e", "n">>
T_src == <<"s", "r", "c">>
T_type == <<"t", "y", "p", "e">>
T_value == <<"v", "a", "l", "u", "e">>
T_playOrder == <<"p", "l", "a", "y", "O", "r", "d", "e", "r">>
T_normal == <<"n", "o", "r", "m", "a", "l">>
T_front == <<"f", "r", "o", "n", "t">>
T_p1 == <<"p", "1">>
T_class == <<"c", "l", "a", "s", "s">>
T_name == <<"n", "a", "m", "e">>
T_dtb_uid == <<"d", "t", "b", ":", "u", "i", "d">>
T_dtb_depth == <<"d", "t", "b", ":", "d", "e", "p", "t", "h">>
T_dtb_totalPageCount ==
    <<"d", "t", "b", ":", "t", "o", "t", "a", "l", "P", "a", "g", "e", "C", "o", "u", "n", "t">>
T_dtb_maxPageNumber ==
    <<"d", "t", "b", ":", "m", "a", "x", "P", "a", "g", "e", "N", "u", "m", "b", "e", "r">>
T_dtb_generator == <<"d", "t", "b", ":", "g", "e", "n">>
S_minus1 == <<"-", "1">>

\* One attribute of a start tag.
Attr(key, value) == [key |-> key, value |-> value]

\* QName::local_name: the part of the name after its first ':', the whole
\* name when it has none.
local_name(key) ==
    IF \E i \in 1..Len(key) : key[i] = ":"
    THEN LET at == CHOOSE i \in 1..Len(key) : key[i] = ":" /\ \A j \in 1..(i - 1) : key[j] # ":"
         IN  SubSeq(key, at + 1, Len(key))
    ELSE key

\* Ncx::parse_ncx_attributes (ncx/parser.rs:243-261): the loop over the
\* attributes, from the values acc held before it.
RECURSIVE parse_ncx_attributes(_, _)
parse_ncx_attributes(attrs, acc) ==
    IF attrs = <<>> THEN acc
    ELSE LET attr == Head(attrs)
             next == IF local_name(attr.key) = T_version
                     THEN [acc EXCEPT !.version = attr.value]
                     ELSE IF local_name(attr.key) = T_xml_lang
                          THEN [acc EXCEPT !.xml_lang = Some(attr.value)]
                     ELSE acc
         IN  parse_ncx_attributes(Tail(attrs), next)

\* PageTarget::new (ncx/navigation.rs:239-255) with the NavLabel and
\* NavContent it is given.
PageTarget(id, page_type, value, play_order, text, src) ==
    [id |-> id, page_type |-> page_type, value |-> value, play_order |-> play_order,
     nav_label |-> [text |-> text], content |-> [src |-> src]]

\* Ncx::parse_page_target_attributes (ncx/parser.rs:340-366)
RECURSIVE parse_page_target_attributes(_, _)
parse_page_target_attributes(attrs, acc) ==
    IF attrs = <<>> THEN acc
    ELSE LET attr == Head(attrs)
             name == local_name(attr.key)
             parsed == ParseU32(attr.value)
             next == IF name = T_id THEN [acc EXCEPT !.id = attr.value]
                     ELSE IF name = T_type THEN [acc EXCEPT !.page_type = attr.value]
                     ELSE IF name = T_value THEN [acc EXCEPT !.value = attr.value]
                     ELSE IF name = T_playOrder
                          THEN [acc EXCEPT !.play_order = IF parsed = None THEN 0 ELSE parsed[1]]
                     ELSE acc
         IN  parse_page_target_attributes(Tail(attrs), next)

\* Ncx::parse_content_src (ncx/parser.rs:329-337)
RECURSIVE parse_content_src(_)
parse_content_src(attrs) ==
    IF attrs = <<>> THEN <<>>
    ELSE IF local_name(Head(attrs).key) = T_src THEN Head(attrs).value
    ELSE parse_content_src(Tail(attrs))

\* str::parse::<u32>().unwrap_or(0) (ncx/parser.rs:316, 359)
parse_or_zero(text) == IF ParseU32(text) = None THEN 0 ELSE ParseU32(text)[1]

\* Ncx::parse_nav_point_attributes (ncx/parser.rs:304-326)
RECURSIVE parse_nav_point_attributes(_, _)
parse_nav_point_attributes(attrs, acc) ==
    IF attrs = <<>> THEN acc
    ELSE LET attr == Head(attrs)
             name == local_name(attr.key)
             next == IF name = T_id THEN [acc EXCEPT !.id = attr.value]
                     ELSE IF name = T_playOrder
                          THEN [acc EXCEPT !.play_order = parse_or_zero(attr.value)]
                     ELSE IF name = T_class THEN [acc EXCEPT !.class = Some(attr.value)]
                     ELSE acc
         IN  parse_nav_point_attributes(Tail(attrs), next)

\* The attribute loop of parse_meta_element (ncx/parser.rs:265-279).
RECURSIVE meta_name_and_content(_, _)
meta_name_and_content(attrs, acc) ==
    IF attrs = <<>> THEN acc
    ELSE LET attr == Head(attrs)
             next == IF local_name(attr.key) = T_name THEN [acc EXCEPT !.name = attr.value]
                     ELSE IF local_name(attr.key) = T_content
                          THEN [acc EXCEPT !.content = attr.value]
                     ELSE acc
         IN  meta_name_and_content(Tail(attrs), next)

\* A meta reader that turns an unparseable number into 0.
parse_meta_element_defaulting(attrs, metadata) ==
    LET m == meta_name_and_content(attrs, [name |-> <<>>, content |-> <<>>])
    IN  IF m.name = T_dtb_uid THEN [metadata EXCEPT !.uid = Some(m.content)]
        ELSE IF m.name = T_dtb_depth
        THEN [metadata EXCEPT !.depth = Some(parse_or_zero(m.content))]
        ELSE IF m.name = T_dtb_totalPageCount
        THEN [metadata EXCEPT !.total_page_count = Some(parse_or_zero(m.content))]
        ELSE IF m.name = T_dtb_maxPageNumber
        THEN [metadata EXCEPT !.max_page_number = Some(parse_or_zero(m.content))]
        ELSE [metadata EXCEPT !.other_metadata = MapInsert(@, m.name, m.content)]

\* Ncx::parse_meta_element (ncx/parser.rs:264-301)
parse_meta_element(attrs, metadata) ==
    LET m == meta_name_and_content(attrs, [name |-> <<>>, content |-> <<>>])
    IN  IF m.name = T_dtb_uid THEN [metadata EXCEPT !.uid = Some(m.content)]
        ELSE IF m.name = T_dtb_depth
        THEN [metadata EXCEPT !.depth = ParseU32(m.content)]
        ELSE IF m.name = T_dtb_totalPageCount
        THEN [metadata EXCEPT !.total_page_count = ParseU32(m.content)]
        ELSE IF m.name = T_dtb_maxPageNumber
        THEN [metadata EXCEPT !.max_page_number = ParseU32(m.content)]
        ELSE [metadata EXCEPT !.other_metadata = MapInsert(@, m.name, m.content)]

\* Event::Start inside the ncx element (ncx/parser.rs:70-141), and
\* text_content.clear() after the match.
page_on_start(name, attrs, st) ==
    LET cleared == [st EXCEPT !.text_content = <<>>]
    IN  IF name = "head" THEN [cleared EXCEPT !.current_section = "head"]
        ELSE IF name = "navMap" THEN [cleared EXCEPT !.current_section = "navMap"]
        ELSE IF name = "pageList"
        THEN [cleared EXCEPT !.current_section = "pageList",
                             !.current_page_list = NewPageList]
        ELSE IF name = "meta" /\ st.current_section = "head"
        THEN [cleared EXCEPT !.metadata = parse_meta_element(attrs, @)]
        ELSE IF name = "navPoint" /\ st.current_section = "navMap"
        THEN [cleared EXCEPT
                !.nav_point_stack = IF st.current_nav_point # None
                                    THEN Append(@, st.current_nav_point[1]) ELSE @,
                !.current_nav_point =
                    Some(parse_nav_point_attributes(attrs,
                            [id |-> <<>>, play_order |-> 0, class |-> None,
                             nav_label |-> [text |-> <<>>], content |-> [src |-> <<>>],
                             children |-> <<>>]))]
        ELSE IF name = "navLabel" /\ st.current_section = "navMap"
        THEN [cleared EXCEPT !.current_nav_label = Some([text |-> <<>>])]
        ELSE IF name = "content" /\ st.current_section = "navMap"
        THEN [cleared EXCEPT !.current_nav_content = Some([src |-> parse_content_src(attrs)])]
        ELSE IF name = "pageTarget" /\ st.current_section = "pageList"
        THEN [cleared EXCEPT !.current_page_target =
                Some(parse_page_target_attributes(attrs,
                        PageTarget(<<>>, T_normal, <<>>, 0, <<>>, <<>>)))]
        ELSE cleared

\* Event::End (ncx/parser.rs:157-218).
page_on_end(name, st) ==
    IF name \in {"head", "navMap", "pageList"}
    THEN [st EXCEPT !.current_section = ""]
    ELSE IF name = "text" /\ st.current_section = "navMap"
    THEN IF st.current_nav_label # None
         THEN [st EXCEPT !.current_nav_label = Some([text |-> trim(st.text_content)])]
         ELSE st
    ELSE IF name = "navLabel" /\ st.current_section = "navMap"
    THEN IF st.current_nav_label # None /\ st.current_nav_point # None
         THEN [st EXCEPT !.current_nav_point =
                            Some([@[1] EXCEPT !.nav_label = st.current_nav_label[1]]),
                         !.current_nav_label = None]
         ELSE st
    ELSE IF name = "content" /\ st.current_section = "navMap"
    THEN IF st.current_nav_content # None /\ st.current_nav_point # None
         THEN [st EXCEPT !.current_nav_point =
                            Some([@[1] EXCEPT !.content = st.current_nav_content[1]]),
                         !.current_nav_content = None]
         ELSE st
    ELSE IF name = "navPoint" /\ st.current_section = "navMap"
    THEN IF st.current_nav_point = None THEN st
         ELSE IF st.nav_point_stack # <<>>
         THEN [st EXCEPT
                 !.nav_point_stack = SubSeq(@, 1, Len(@) - 1),
                 !.current_nav_point =
                     Some(add_child(Last(st.nav_point_stack), st.current_nav_point[1]))]
         ELSE [st EXCEPT !.nav_map = add_nav_point(@, st.current_nav_point[1]),
                         !.current_nav_point = None]
    ELSE IF name = "text" /\ st.current_section = "pageList"
    THEN IF st.current_page_target # None
         THEN [st EXCEPT !.current_page_target =
                 Some([@[1] EXCEPT !.nav_label = [text |-> trim(st.text_content)]])]
         ELSE IF st.current_page_list.nav_label = None
         THEN [st EXCEPT !.current_page_list.nav_label =
                 Some([text |-> trim(st.text_content)])]
         ELSE st
    ELSE IF name = "pageTarget" /\ st.current_section = "pageList"
    THEN IF st.current_page_target # None
         THEN [st EXCEPT !.current_page_list.page_targets = Append(@, st.current_page_target[1]),
                         !.current_page_target = None]
         ELSE st
    ELSE st

\* The documents explored.
RootAttrs ==
    { <<>>,
      <<Attr(T_version, T_2005_1)>>,
      <<Attr(T_version, T_2005_1), Attr(T_xml_lang, T_en)>>,
      <<Attr(T_xml_lang, T_en), Attr(T_version, T_2005_1)>> }

PageTargetAttrs ==
    { <<Attr(T_id, T_p1), Attr(T_value, S_1), Attr(T_playOrder, S_1)>>,
      <<Attr(T_type, T_front), Attr(T_playOrder, S_1x)>>,
      <<Attr(T_id, T_p1)>> }

NavPointAttrs ==
    { <<Attr(T_id, T_p1), Attr(T_playOrder, S_plus2)>>,
      <<Attr(T_playOrder, S_minus1), Attr(T_class, T_A)>>,
      <<Attr(T_id, T_c1)>>,
      <<Attr(T_id, T_c1), Attr(T_playOrder, S_1)>> }

NcxMetaAttrs ==
    { <<Attr(T_name, T_dtb_uid), Attr(T_content, T_A)>>,
      <<Attr(T_name, T_dtb_depth), Attr(T_content, S_1)>>,
      <<Attr(T_name, T_dtb_depth), Attr(T_content, S_1x)>>,
      <<Attr(T_content, T_A), Attr(T_name, T_dtb_totalPageCount)>>,
      <<Attr(T_name, T_dtb_maxPageNumber), Attr(T_content, <<>>)>>,
      <<Attr(T_name, T_dtb_maxPageNumber), Attr(T_content, S_plus2)>>,
      <<Attr(T_name, T_dtb_generator), Attr(T_content, S_1x)>> }

\* The sections of the ncx element, in the order of the NCX DTD.
Sections == <<"head", "navMap", "pageList">>

ContentAttrs == { <<Attr(T_src, T_ch1_xhtml)>>, <<>> }

\* The elements that may start inside the innermost open element.  The
\* documents are well-formed; a navPoint may hold a head element, which the
\* NCX DTD does not allow and XML does.
PageChildren(parent) ==
    CASE parent = "ncx" ->
            { [name |-> Sections[k], attrs |-> <<>>] :
                k \in { k \in 1..Len(Sections) :
                          \A i \in 1..Len(pageDoc) : \A j \in k..Len(Sections) :
                              pageDoc[i].name # Sections[j] } }
      [] parent = "head" -> { [name |-> "meta", attrs |-> a] : a \in NcxMetaAttrs }
      [] parent = "navMap" -> { [name |-> "navPoint", attrs |-> a] : a \in NavPointAttrs }
      [] parent = "navPoint" ->
            { [name |-> "navPoint", attrs |-> a] : a \in NavPointAttrs }
            \cup { [name |-> "content", attrs |-> a] : a \in ContentAttrs }
            \cup { [name |-> "navLabel", attrs |-> <<>>], [name |-> "head", attrs |-> <<>>] }
      [] parent = "pageList" ->
            { [name |-> "pageTarget", attrs |-> a] : a \in PageTargetAttrs }
            \cup { [name |-> "navLabel", attrs |-> <<>>] }
      [] parent = "pageTarget" ->
            { [name |-> "content", attrs |-> a] : a \in ContentAttrs }
            \cup { [name |-> "navLabel", attrs |-> <<>>] }
      [] parent = "navLabel" -> { [name |-> "text", attrs |-> <<>>] }
      [] OTHER -> {}

\* Every element explored inside the ncx element.
PageElements ==
    { [name |-> n, attrs |-> <<>>] : n \in {"head", "navMap", "pageList"} }
    \cup { [name |-> "meta", attrs |-> a] : a \in NcxMetaAttrs }
    \cup { [name |-> "navPoint", attrs |-> a] : a \in NavPointAttrs }
    \cup {
      [name |-> "navLabel", attrs |-> <<>>],
      [name |-> "text", attrs |-> <<>>] }
    \cup { [name |-> "pageTarget", attrs |-> a] : a \in PageTargetAttrs }
    \cup { [name |-> "content", attrs |-> a] : a \in ContentAttrs }

\* The elements started so far.
PageStarted == SelectSeq(pageDoc, LAMBDA e : e.type = "start")

\* Ncx::parse_xml before the first event (ncx/parser.rs:39-66).
InitPageList ==
    /\ IdleOpen
    /\ IdlePackage
    /\ IdleFacade
    /\ IdleMeta
    /\ IdlePath
    /\ IdleContainer
    /\ IdleNavMap
    /\ pagePc = "start"
    /\ pageDoc = <<>>
    /\ ncxRoot = [version |-> <<>>, xml_lang |-> None]
    /\ pageLocals = [current_section |-> "", text_content |-> <<>>,
                     metadata |-> NewNcxMetadata,
                     nav_point_stack |-> <<>>, current_nav_point |-> None, nav_map |-> <<>>,
                     current_nav_label |-> None, current_nav_content |-> None,
                     current_page_list |-> NewPageList, current_page_target |-> None,
                     open |-> <<>>]
    /\ page_list = None
    /\ page_toc_roots = <<>>
    /\ page_lookup = NoLookup

\* The locals st and the open elements become the variable.
PageBecomes(st, open) ==
    pageLocals' = [st EXCEPT !.open = open]

\* Event::Start of the ncx root element (ncx/parser.rs:75-79).
NcxStart(attrs) ==
    /\ pagePc = "start"
    /\ pageDoc' = <<[type |-> "start", name |-> "ncx", attrs |-> attrs]>>
    /\ ncxRoot' = parse_ncx_attributes(attrs, [version |-> <<>>, xml_lang |-> None])
    /\ PageBecomes([pageLocals EXCEPT !.text_content = <<>>], <<"ncx">>)
    /\ pagePc' = "body"
    /\ UNCHANGED <<page_list, page_toc_roots, page_lookup>>
    /\ UNCHANGED notPageList

\* Event::Start of an element inside the ncx element.
PageStart(el) ==
    /\ pagePc = "body"
    /\ Len(PageStarted) < MaxPageElements
    /\ pageLocals.open # <<>>
    /\ el \in PageChildren(Last(pageLocals.open))
    /\ pageDoc' = Append(pageDoc, [type |-> "start", name |-> el.name, attrs |-> el.attrs])
    /\ PageBecomes(page_on_start(el.name, el.attrs, pageLocals),
                   Append(pageLocals.open, el.name))
    /\ UNCHANGED <<pagePc, ncxRoot, page_list, page_toc_roots, page_lookup>>
    /\ UNCHANGED notPageList

\* Event::Text (ncx/parser.rs:219-221); the documents explored have text in
\* text elements only.
PageText(text) ==
    /\ pagePc = "body"
    /\ pageLocals.open # <<>> /\ Last(pageLocals.open) = "text"
    /\ pageDoc[Len(pageDoc)].type = "start"
    /\ pageDoc' = Append(pageDoc, [type |-> "text", name |-> "", attrs |-> text])
    /\ PageBecomes([pageLocals EXCEPT !.text_content = @ \o text], pageLocals.open)
    /\ UNCHANGED <<pagePc, ncxRoot, page_list, page_toc_roots, page_lookup>>
    /\ UNCHANGED notPageList

\* Event::End of the innermost open element (ncx/parser.rs:157-218).
PageEnd ==
    /\ pagePc = "body"
    /\ pageLocals.open # <<>>
    /\ LET name == Last(pageLocals.open)
       IN  /\ pageDoc' = Append(pageDoc, [type |-> "end", name |-> name, attrs |-> <<>>])
           /\ PageBecomes(page_on_end(name, pageLocals),
                          SubSeq(pageLocals.open, 1, Len(pageLocals.open) - 1))
           /\ page_list' =
                IF name = "pageList" /\ pageLocals.current_page_list.page_targets # <<>>
                THEN Some(pageLocals.current_page_list)
                ELSE page_list
    /\ UNCHANGED <<pagePc, ncxRoot, page_toc_roots, page_lookup>>
    /\ UNCHANGED notPageList

\* Event::Eof (ncx/parser.rs:222), the sort of the navigation map
\* (parser.rs:228-230) and the Ncx returned (parser.rs:232-239).
PageEof ==
    /\ pagePc = "body"
    /\ pageLocals.open = <<>>
    /\ pagePc' = "done"
    /\ pageLocals' = [pageLocals EXCEPT !.nav_map = sort_by_play_order(@)]
    /\ UNCHANGED <<pageDoc, ncxRoot, page_list, page_toc_roots, page_lookup>>
    /\ UNCHANGED notPageList

\* create_toc_tree_from_ncx (toc_tree.rs:2035-2049), on the Ncx returned.
PageTree ==
    /\ pagePc = "done"
    /\ pagePc' = "tree"
    /\ page_toc_roots' = [i \in 1..Len(pageLocals.nav_map) |->
                            convert_nav_point_to_toc_node(pageLocals.nav_map[i], 0)]
    /\ UNCHANGED <<pageDoc, ncxRoot, pageLocals, page_list, page_lookup>>
    /\ UNCHANGED notPageList

NextPageList ==
    \/ \E attrs \in RootAttrs : NcxStart(attrs)
    \/ \E el \in PageElements : PageStart(el)
    \/ \E text \in {T_A, <<" ">> \o T_B} : PageText(text)
    \/ PageEnd
    \/ PageEof
    \/ PageTree

\* The positions of the Start events of the pageTarget elements, in
\* document order.
RECURSIVE PageTargetStarts(_)
PageTargetStarts(n) ==
    IF n = 0 THEN <<>>
    ELSE IF pageDoc[n].type = "start" /\ pageDoc[n].name = "pageTarget"
         THEN Append(PageTargetStarts(n - 1), n)
         ELSE PageTargetStarts(n - 1)

\* The position of the End event of the pageTarget element started at i.
PageTargetEnd(i) ==
    CHOOSE j \in (i + 1)..Len(pageDoc) :
        /\ pageDoc[j].type = "end" /\ pageDoc[j].name = "pageTarget"
        /\ \A k \in (i + 1)..(j - 1) : ~(pageDoc[k].type = "end" /\ pageDoc[k].name = "pageTarget")

\* The src attribute of a content element, as written.
WrittenSrc(attrs) ==
    IF \E k \in 1..Len(attrs) : attrs[k].key = T_src
    THEN (CHOOSE a \in { attrs[k] : k \in 1..Len(attrs) } : a.key = T_src).value
    ELSE <<>>

\* C29 as stated: every PageTarget of the parsed page list has the src
\* attribute of the content element inside its pageTarget element as
\* content.src.
C29_PageTargetContentSrc ==
    (pagePc \in {"done", "tree"} /\ page_list # None) =>
        LET starts == PageTargetStarts(Len(pageDoc))
            targets == page_list[1].page_targets
        IN  /\ Len(targets) = Len(starts)
            /\ \A k \in 1..Len(starts) :
                  \A i \in (starts[k] + 1)..(PageTargetEnd(starts[k]) - 1) :
                      (pageDoc[i].type = "start" /\ pageDoc[i].name = "content") =>
                          targets[k].content.src = WrittenSrc(pageDoc[i].attrs)

\* The attribute named key of the root element, as written.
RootAttribute(key) ==
    LET attrs == pageDoc[1].attrs
    IN  IF \E k \in 1..Len(attrs) : attrs[k].key = key
        THEN Some((CHOOSE a \in { attrs[k] : k \in 1..Len(attrs) } : a.key = key).value)
        ELSE None

\* C30 as stated: lang is the xml:lang attribute of the ncx root element
\* when the element has one and absent otherwise, and version is its
\* version attribute.
C30_RootAttributes ==
    pagePc \in {"body", "done", "tree"} =>
        /\ ncxRoot.xml_lang = RootAttribute(T_xml_lang)
        /\ RootAttribute(T_version) # None => ncxRoot.version = RootAttribute(T_version)[1]

\* The value of the attribute named key among attrs, as written.
WrittenAttribute(attrs, key) ==
    IF \E k \in 1..Len(attrs) : attrs[k].key = key
    THEN Some((CHOOSE a \in { attrs[k] : k \in 1..Len(attrs) } : a.key = key).value)
    ELSE None

\* The decimal numerals of the numbers below ten.
Numerals == <<"0", "1", "2", "3", "4", "5", "6", "7", "8", "9">>

\* The number a text denotes when it is an unsigned integer (a numeral, or
\* a numeral after a plus sign, as u32::from_str reads it), and None for
\* every other text.
UnsignedValue(text) ==
    LET digits == IF text # <<>> /\ Head(text) = "+" THEN Tail(text) ELSE text
    IN  IF Len(digits) = 1 /\ \E n \in 0..9 : digits[1] = Numerals[n + 1]
        THEN Some(CHOOSE n \in 0..9 : digits[1] = Numerals[n + 1])
        ELSE None

\* The number a counter attribute denotes; None when it is missing or no
\* unsigned integer.
WrittenCounter(written) == IF written = None THEN None ELSE UnsignedValue(written[1])

\* C31: right after the start tag of a navPoint read in the navMap section or
\* of a pageTarget the point in
\* progress has the playOrder the attribute denotes, and 0 when the attribute
\* is missing or no unsigned integer; right after a meta named dtb:depth,
\* dtb:totalPageCount or dtb:maxPageNumber the field holds the number the
\* content denotes and is absent when the content is no number.  The parse
\* goes on in every case.
C31_MalformedCountersDefault ==
    (pagePc = "body" /\ Last(pageDoc).type = "start") =>
        LET e == Last(pageDoc)
            counter == WrittenCounter(WrittenAttribute(e.attrs, T_playOrder))
            order == IF counter = None THEN 0 ELSE counter[1]
            content == WrittenCounter(WrittenAttribute(e.attrs, T_content))
            name == WrittenAttribute(e.attrs, T_name)
        IN  /\ (e.name = "navPoint" /\ pageLocals.current_section = "navMap") =>
                 /\ pageLocals.current_nav_point # None
                 /\ pageLocals.current_nav_point[1].play_order = order
            /\ e.name = "pageTarget" =>
                 /\ pageLocals.current_page_target # None
                 /\ pageLocals.current_page_target[1].play_order = order
            /\ e.name = "meta" =>
                 /\ name = Some(T_dtb_depth) => pageLocals.metadata.depth = content
                 /\ name = Some(T_dtb_totalPageCount) =>
                        pageLocals.metadata.total_page_count = content
                 /\ name = Some(T_dtb_maxPageNumber) =>
                        pageLocals.metadata.max_page_number = content

\* A finished parse of a document with a dtb:depth of "1x" and one navPoint
\* without playOrder: depth is absent and the point has playOrder 0.
C31_Witness ==
    /\ pagePc = "done"
    /\ \E i \in 1..Len(pageDoc) :
          /\ pageDoc[i].name = "meta" /\ pageDoc[i].type = "start"
          /\ pageDoc[i].attrs = <<Attr(T_name, T_dtb_depth), Attr(T_content, S_1x)>>
    /\ \E i \in 1..Len(pageDoc) :
          /\ pageDoc[i].name = "navPoint" /\ pageDoc[i].type = "start"
          /\ pageDoc[i].attrs = <<Attr(T_id, T_c1)>>
    /\ pageLocals.metadata.depth = None
    /\ Len(pageLocals.nav_map) = 1
    /\ pageLocals.nav_map[1].id = T_c1
    /\ pageLocals.nav_map[1].play_order = 0

\* The index paths of the nodes of a forest: <<i>> is the i-th root (counted
\* from 1 here, from 0 in the code), p \o <<i>> the i-th child of the node at p.
RECURSIVE PathsOf(_)
PathsOf(nodes) ==
    UNION { {<<i>>} \cup { <<i>> \o q : q \in PathsOf(nodes[i].children) } :
            i \in 1..Len(nodes) }

\* The node of a forest at an index path of it.
RECURSIVE NodeAt(_, _)
NodeAt(nodes, p) ==
    IF Len(p) = 1 THEN nodes[p[1]] ELSE NodeAt(nodes[p[1]].children, Tail(p))

\* C32: in the tree built from a parsed navigation document every node's
\* depth is the length of its index path minus one, and the tree has the
\* index paths of the navigation map, with the playOrder, id, label text and
\* content src of the navPoint at the same path.
C32_TreeMirrorsNavigationMap ==
    pagePc = "tree" =>
        /\ PathsOf(page_toc_roots) = PathsOf(pageLocals.nav_map)
        /\ \A p \in PathsOf(page_toc_roots) :
              LET node == NodeAt(page_toc_roots, p)
                  point == NodeAt(pageLocals.nav_map, p)
              IN  /\ node.depth = Len(p) - 1
                  /\ node.play_order = point.play_order
                  /\ node.id = point.id
                  /\ node.title = point.nav_label.text
                  /\ node.src = point.content.src

\* A tree of a root with playOrder 2 and a child with a content src.
C32_Witness ==
    /\ pagePc = "tree"
    /\ PathsOf(page_toc_roots) = { <<1>>, <<1, 1>> }
    /\ NodeAt(page_toc_roots, <<1>>).play_order = 2
    /\ NodeAt(page_toc_roots, <<1, 1>>).depth = 1
    /\ NodeAt(page_toc_roots, <<1, 1>>).src = T_ch1_xhtml
    /\ NodeAt(page_toc_roots, <<1, 1>>).id = T_c1

\* The number of points of a forest of NavPoints.
RECURSIVE PointCount(_)
PointCount(points) ==
    LET n[i \in 0..Len(points)] ==
            IF i = 0 THEN 0 ELSE n[i - 1] + 1 + PointCount(points[i].children)
    IN  n[Len(points)]

\* The navPoint elements open after the events read so far.  Every navPoint
\* of the documents explored is inside navMap.
OpenNavPointCount == Len(SelectSeq(pageLocals.open, LAMBDA name : name = "navPoint"))

\* C35 as stated: after each event of a well-formed document the points in
\* progress (the stack, and the current point when there is one) are as many
\* as the open navPoint elements; at the end of the document the stack is
\* empty, no point is in progress and the navigation map has as many points
\* as navMap has navPoint elements.
C35_NavPointBookkeeping ==
    LET in_progress == Len(pageLocals.nav_point_stack)
                       + (IF pageLocals.current_nav_point = None THEN 0 ELSE 1)
    IN  /\ pagePc = "body" => in_progress = OpenNavPointCount
        /\ pagePc = "done" =>
              /\ in_progress = 0
              /\ PointCount(pageLocals.nav_map) =
                    Len(SelectSeq(pageDoc, LAMBDA e : e.type = "start" /\ e.name = "navPoint"))

(***************************************************************************)
(* Path-addressed lookup and sibling navigation on a TocTree               *)
(* (ncx/toc_tree.rs:130-146, 1095-1153).  The trees are those the builder  *)
(* makes of navigation maps of every shape with up to MaxTreeNodes points; *)
(* a path is a sequence of indices counted from 0, as in the code.         *)
(***************************************************************************)
MaxTreeNodes == 3

\* The navigation maps with n points in all: every shape, each point with its
\* own id (its place among its siblings, after its parent's id).
RECURSIVE NavMapsOf(_, _)
NavMapsOf(n, prefix) ==
    IF n = 0 THEN {<<>>}
    ELSE UNION { { <<[NewNavPoint(prefix \o <<"a">>, 0) EXCEPT !.children = c]>> \o rest :
                     c \in NavMapsOf(k - 1, prefix \o <<"a">>),
                     rest \in NavMapsOf(n - k, prefix \o <<"b">>) } :
                 k \in 1..n }

\* The trees create_toc_tree_from_ncx builds of them.
TocTrees ==
    { [i \in 1..Len(map) |-> convert_nav_point_to_toc_node(map[i], 0)] :
        map \in UNION { NavMapsOf(n, <<>>) : n \in 0..MaxTreeNodes } }

\* The paths asked for: every index up to one past the largest possible.
PathsUpTo(n) == UNION { [1..k -> 0..n] : k \in 0..n }

\* A lookup that stops at the first index.
TocTreeNode_get_node_by_path_first_only(node, path) ==
    IF path = <<>> THEN Some(node)
    ELSE IF path[1] >= Len(node.children) THEN None
    ELSE Some(node.children[path[1] + 1])

\* TocTreeNode::get_node_by_path (toc_tree.rs:130-146)
RECURSIVE TocTreeNode_get_node_by_path(_, _)
TocTreeNode_get_node_by_path(node, path) ==
    IF path = <<>> THEN Some(node)
    ELSE IF path[1] >= Len(node.children) THEN None
    ELSE IF Len(path) = 1 THEN Some(node.children[path[1] + 1])
    ELSE TocTreeNode_get_node_by_path(node.children[path[1] + 1], Tail(path))

\* TocTree::get_node_by_path (toc_tree.rs:1095-1111)
get_node_by_path(roots, path) ==
    IF path = <<>> THEN None
    ELSE IF path[1] >= Len(roots) THEN None
    ELSE IF Len(path) = 1 THEN Some(roots[path[1] + 1])
    ELSE TocTreeNode_get_node_by_path(roots[path[1] + 1], Tail(path))

\* A next-sibling lookup that returns the node itself.
get_next_sibling_staying(roots, current_path) ==
    IF current_path = <<>> THEN None ELSE get_node_by_path(roots, current_path)

\* TocTree::get_next_sibling (toc_tree.rs:1125-1135)
get_next_sibling(roots, current_path) ==
    IF current_path = <<>> THEN None
    ELSE get_node_by_path(roots, [current_path EXCEPT ![Len(current_path)] = @ + 1])

\* TocTree::get_prev_sibling (toc_tree.rs:1139-1153)
get_prev_sibling(roots, current_path) ==
    IF current_path = <<>> THEN None
    ELSE IF current_path[Len(current_path)] = 0 THEN None
    ELSE get_node_by_path(roots, [current_path EXCEPT ![Len(current_path)] = @ - 1])

\* A tree built by create_toc_tree_from_ncx, before any call on it.
InitTocTree ==
    /\ IdleOpen
    /\ IdlePackage
    /\ IdleFacade
    /\ IdleMeta
    /\ IdlePath
    /\ IdleContainer
    /\ IdleNavMap
    /\ pagePc = "tree"
    /\ pageDoc = <<>>
    /\ ncxRoot = [version |-> <<>>, xml_lang |-> None]
    /\ pageLocals = [current_section |-> "", text_content |-> <<>>,
                     metadata |-> NewNcxMetadata,
                     nav_point_stack |-> <<>>, current_nav_point |-> None, nav_map |-> <<>>,
                     current_nav_label |-> None, current_nav_content |-> None,
                     current_page_list |-> NewPageList, current_page_target |-> None,
                     open |-> <<>>]
    /\ page_list = None
    /\ page_toc_roots \in TocTrees
    /\ page_lookup = NoLookup

\* The variables a call on the tree leaves alone.  The calls take &self and
\* change nothing, so one call on each tree shows every call.
notLookup == <<pagePc, pageDoc, ncxRoot, pageLocals, page_list, page_toc_roots>>

\* tree.get_node_by_path(path)
GetNodeByPath(path) ==
    /\ pagePc = "tree" /\ page_lookup = NoLookup
    /\ page_lookup' = [fn |-> "TocTree::get_node_by_path", path |-> path,
                       result |-> get_node_by_path(page_toc_roots, path)]
    /\ UNCHANGED notLookup
    /\ UNCHANGED notPageList

\* root.get_node_by_path(path) on the first root of the tree.
NodeGetNodeByPath(path) ==
    /\ pagePc = "tree" /\ page_lookup = NoLookup
    /\ page_toc_roots # <<>>
    /\ page_lookup' = [fn |-> "TocTreeNode::get_node_by_path", path |-> path,
                       result |-> TocTreeNode_get_node_by_path(page_toc_roots[1], path)]
    /\ UNCHANGED notLookup
    /\ UNCHANGED notPageList

\* tree.get_next_sibling(path)
GetNextSibling(path) ==
    /\ pagePc = "tree" /\ page_lookup = NoLookup
    /\ page_lookup' = [fn |-> "get_next_sibling", path |-> path,
                       result |-> get_next_sibling(page_toc_roots, path)]
    /\ UNCHANGED notLookup
    /\ UNCHANGED notPageList

\* tree.get_prev_sibling(path)
GetPrevSibling(path) ==
    /\ pagePc = "tree" /\ page_lookup = NoLookup
    /\ page_lookup' = [fn |-> "get_prev_sibling", path |-> path,
                       result |-> get_prev_sibling(page_toc_roots, path)]
    /\ UNCHANGED notLookup
    /\ UNCHANGED notPageList

NextTocTree ==
    \/ \E path \in PathsUpTo(MaxTreeNodes) : GetNodeByPath(path)
    \/ \E path \in PathsUpTo(MaxTreeNodes) : NodeGetNodeByPath(path)
    \/ \E path \in PathsUpTo(MaxTreeNodes) : GetNextSibling(path)
    \/ \E path \in PathsUpTo(MaxTreeNodes) : GetPrevSibling(path)

\* The path of the code, with indices counted from 1.
FromOne(path) == [i \in 1..Len(path) |-> path[i] + 1]

\* The node a path addresses among nodes, None when an index of the path is
\* out of range.
Addressed(nodes, path) ==
    IF FromOne(path) \in PathsOf(nodes) THEN Some(NodeAt(nodes, FromOne(path))) ELSE None

Shifted(p, d) == [p EXCEPT ![Len(p)] = @ + d]

\* C34: for a path p that addresses a node, get_next_sibling(p) is the node
\* at p with the last index one higher, none when p is the last sibling;
\* get_prev_sibling(p) is the node at p with the last index one lower, none
\* when the last index is 0; and the previous sibling of the next sibling's
\* path is the node at p.
C34_SiblingNavigation ==
    LET p == page_lookup.path
    IN  (p # <<>> /\ Addressed(page_toc_roots, p) # None) =>
           /\ page_lookup.fn = "get_next_sibling" =>
                 /\ page_lookup.result = Addressed(page_toc_roots, Shifted(p, 1))
                 /\ get_prev_sibling(page_toc_roots, Shifted(p, 1)) =
                        Addressed(page_toc_roots, p)
           /\ page_lookup.fn = "get_prev_sibling" =>
                 page_lookup.result =
                    IF p[Len(p)] = 0 THEN None ELSE Addressed(page_toc_roots, Shifted(p, 0 - 1))

\* The next sibling of the first child of a root with two children is the
\* second child.
C34_Witness ==
    /\ page_lookup.fn = "get_next_sibling"
    /\ page_lookup.path = <<0, 0>>
    /\ Len(page_toc_roots) = 1 /\ Len(page_toc_roots[1].children) = 2
    /\ page_lookup.result = Some(page_toc_roots[1].children[2])
    /\ get_prev_sibling(page_toc_roots, <<0, 1>>) = Some(page_toc_roots[1].children[1])


(***************************************************************************)
(* The specifications, one per component.                                  *)
(***************************************************************************)
SpecNcx == InitNcx /\ [][NextNcx]_vars

SpecPath == InitPath /\ [][NextPath]_vars

SpecContainer == InitContainer /\ [][NextContainer]_vars

SpecMeta == InitMeta /\ [][NextMeta]_vars

SpecFacade == InitFacade /\ [][NextFacade]_vars

\* While some thread can take a step, a step is taken: the threads are
\* operating-system threads, and a thread blocked on the Mutex or on a
\* OnceCell is woken when the lock is released or the initializer ends.
\* Nothing is assumed about which thread runs.
SpecFacadeFair == SpecFacade /\ WF_vars(NextFacade)

SpecFindNcx == InitFindNcx /\ [][NextFindNcx]_vars
SpecCover == InitCover /\ [][NextCover]_vars
SpecSpine == InitSpine /\ [][NextSpine]_vars
SpecOpen == InitOpen /\ [][NextOpen]_vars
SpecPageList == InitPageList /\ [][NextPageList]_vars
SpecTocTree == InitTocTree /\ [][NextTocTree]_vars
SpecOpfMeta == InitOpfMeta /\ [][NextOpfMeta]_vars

=============================================================================
